---- MODULE Spec2Model ----
(***************************************************************************)
(* Resume Intelligence Core of Skill-navigator.                            *)
(*                                                                         *)
(*   backend/agents/resume_analyzer.py  (first ResumeAnalyzerAgent class): *)
(*       clean -> detect sections -> extract -> normalize -> validate      *)
(*   backend/core/resume_jd_matcher.py  (ResumeJDMatcher):                 *)
(*       match (language model first) and _generate_fallback_match         *)
(*                                                                         *)
(* Python strings are sequences of characters; a character is a one-       *)
(* character TLA+ string, and a character outside ASCII is written by its  *)
(* code point ("U+2013" is the en-dash, "U+2022" the bullet).              *)
(* Python floats are IEEE-754 doubles: the score arithmetic is modelled    *)
(* bit-exactly by the F* operators below.                                  *)
(***************************************************************************)
EXTENDS Integers, Sequences, FiniteSets, TLC

VARIABLES
    pc,                \* position of the request being served
    resume_text,       \* analyze(resume_text): the raw text
    cleaned,           \* _clean_text's result
    detected,          \* sections: _detect_sections' result
    extracted,         \* the dict built by _extract_fields, as the last pass left it
    candidate_profile, \* the profile handed to the matcher
    job_requirements,  \* the job handed to the matcher
    llm_result,        \* what llm_service.generate_json answered
    llm_calls,         \* number of language-model calls made so far
    report,            \* the MatchReport returned by the last call
    previous,          \* the call before the last one: its inputs and its report;
                       \* for a pass of the parser, its argument when it was called
    frames             \* the invocations in progress at once: the arguments, the
                       \* position and the result of each

vars == <<pc, resume_text, cleaned, detected, extracted, candidate_profile,
          job_requirements, llm_result, llm_calls, report, previous, frames>>

----------------------------------------------------------------------------
(* Characters and strings                                                  *)

UpperLetters == <<"A","B","C","D","E","F","G","H","I","J","K","L","M",
                  "N","O","P","Q","R","S","T","U","V","W","X","Y","Z">>
LowerLetters == <<"a","b","c","d","e","f","g","h","i","j","k","l","m",
                  "n","o","p","q","r","s","t","u","v","w","x","y","z">>
Digits == <<"0","1","2","3","4","5","6","7","8","9">>

Range(s) == {s[i] : i \in DOMAIN s}

UpperSet == Range(UpperLetters)
LowerSet == Range(LowerLetters)
DigitSet == Range(Digits)

\* str.lower() on one character
LowerChar(c) ==
    IF c \in UpperSet
    THEN LowerLetters[CHOOSE i \in DOMAIN UpperLetters : UpperLetters[i] = c]
    ELSE c

\* str.lower()
Lower(s) == [i \in DOMAIN s |-> LowerChar(s[i])]

----------------------------------------------------------------------------
(* IEEE-754 double arithmetic on the non-negative values below 128 that    *)
(* the score uses.  A double is the triple <<l2, l1, l0>> of 24-bit limbs  *)
(* of the integer  value * 2^64 ; every operation computes the exact       *)
(* result and rounds it to 53 significant bits, ties to even, as the       *)
(* hardware does.                                                          *)

LimbBase == 2^24

\* number of significant bits of x, for 0 <= x < 2^30
BitLen(x) == CHOOSE k \in 0..30 : x < 2^k /\ (k = 0 \/ 2^(k - 1) <= x)

\* carry propagation between limbs
FCarry(a2, a1, a0) ==
    LET b1 == a1 + (a0 \div LimbBase)
    IN  << a2 + (b1 \div LimbBase), b1 % LimbBase, a0 % LimbBase >>

\* round the exact value v (sticky: a non-zero part below 2^-64 was cut off)
FRound(v, sticky) ==
    LET d == BitLen(v[1]) - 5
    IN  IF d <= 0
        THEN v
        ELSE LET p    == 2^d
                 low  == v[3] % p
                 half == p \div 2
                 odd  == (v[3] \div p) % 2 = 1
                 up   == low > half \/ (low = half /\ (sticky \/ odd))
             IN  FCarry(v[1], v[2], v[3] - low + (IF up THEN p ELSE 0))

\* float(k) for an int k
FInt(k) == << k * (2^16), 0, 0 >>

\* m / n, both ints, n > 0 (Python's true division)
FDiv(m, n) ==
    LET t2 == m * (2^16)
        t1 == (t2 % n) * LimbBase
        t0 == (t1 % n) * LimbBase
    IN  FRound(<< t2 \div n, t1 \div n, t0 \div n >>, (t0 % n) # 0)

\* x * k for a double x and an int k
FMulInt(x, k) == FRound(FCarry(x[1] * k, x[2] * k, x[3] * k), FALSE)

\* x + y
FAdd(x, y) == FRound(FCarry(x[1] + y[1], x[2] + y[2], x[3] + y[3]), FALSE)

\* x < y
FLess(x, y) ==
    \/ x[1] < y[1]
    \/ x[1] = y[1] /\ x[2] < y[2]
    \/ x[1] = y[1] /\ x[2] = y[2] /\ x[3] < y[3]

\* min(k, x) for an int k and a double x
FMinInt(k, x) == IF FLess(x, FInt(k)) THEN x ELSE FInt(k)

\* int(x): truncation toward zero
FTrunc(x) == x[1] \div (2^16)

----------------------------------------------------------------------------
(* Python built-ins used by both subsystems                                *)

\* str.isspace() on one character
IsSpace(c) == c \in {" ", "\t", "\n", "\r"}

\* str.strip()
LStrip(s) ==
    LET kept == {i \in DOMAIN s : ~IsSpace(s[i])}
    IN  IF kept = {} THEN <<>>
        ELSE SubSeq(s, CHOOSE i \in kept : \A j \in kept : i <= j, Len(s))

RStrip(s) ==
    LET kept == {i \in DOMAIN s : ~IsSpace(s[i])}
    IN  IF kept = {} THEN <<>>
        ELSE SubSeq(s, 1, CHOOSE i \in kept : \A j \in kept : i >= j)

Strip(s) == RStrip(LStrip(s))

\* s.startswith(p)
StartsWith(s, p) == Len(p) <= Len(s) /\ SubSeq(s, 1, Len(p)) = p

\* s.endswith(p)
EndsWith(s, p) == Len(p) <= Len(s) /\ SubSeq(s, Len(s) - Len(p) + 1, Len(s)) = p

\* p in s, for strings
Contains(s, p) == \E i \in 0..(Len(s) - Len(p)) : SubSeq(s, i + 1, i + Len(p)) = p

\* x in l, for a list l
InList(x, l) == \E i \in DOMAIN l : l[i] = x

\* d.get(k, default) for a dict d
DictGet(d, k, default) == IF k \in DOMAIN d THEN d[k] ELSE default

\* [f(x) for x in l]  with f = lower().strip()
LowerStripAll(l) == [i \in DOMAIN l |-> Strip(Lower(l[i]))]

\* sum(1 for x in l if P(x)) is Cardinality({i \in DOMAIN l : P(l[i])})

Min(a, b) == IF a <= b THEN a ELSE b
Max(a, b) == IF a >= b THEN a ELSE b

----------------------------------------------------------------------------
(* Matching Engine: ResumeJDMatcher._generate_fallback_match               *)
(*                                                                         *)
(* A profile and a job are dicts: functions from keys to values.  The      *)
(* value under "skills" carries its Python type, which the code tests      *)
(* with isinstance: [kind |-> "dict", value |-> d] or                      *)
(* [kind |-> "list", value |-> l].                                         *)

PyDict(d) == [kind |-> "dict", value |-> d]
PyList(l) == [kind |-> "list", value |-> l]

\* candidate_profile.get('skills', {})
candidate_skills_dict(profile) == DictGet(profile, "skills", PyDict(<<>>))

\* the flattened list of candidate skills
candidate_skills_list(profile) ==
    LET sk == candidate_skills_dict(profile)
    IN  IF sk.kind = "dict"
        THEN DictGet(sk.value, "technical_skills", <<>>)
             \o DictGet(sk.value, "programming_languages", <<>>)
             \o DictGet(sk.value, "tools_frameworks", <<>>)
             \o DictGet(sk.value, "soft_skills", <<>>)
        ELSE IF sk.kind = "list" THEN sk.value ELSE <<>>

candidate_skills_lower(profile) == LowerStripAll(candidate_skills_list(profile))

\* skill_categories, in the dict's insertion order
skill_categories == <<
    [category |-> <<"f","r","o","n","t","e","n","d">>,
     keywords |-> << <<"r","e","a","c","t">>, <<"v","u","e">>, <<"a","n","g","u","l","a","r">>, <<"j","a","v","a","s","c","r","i","p","t">>,
                     <<"t","y","p","e","s","c","r","i","p","t">>, <<"h","t","m","l">>, <<"c","s","s">> >>],
    [category |-> <<"b","a","c","k","e","n","d">>,
     keywords |-> << <<"n","o","d","e">>, <<"p","y","t","h","o","n">>, <<"j","a","v","a">>, <<"d","j","a","n","g","o">>,
                     <<"f","l","a","s","k">>, <<"e","x","p","r","e","s","s">>, <<"f","a","s","t","a","p","i">> >>],
    [category |-> <<"d","a","t","a","b","a","s","e">>,
     keywords |-> << <<"s","q","l">>, <<"m","y","s","q","l">>, <<"p","o","s","t","g","r","e","s","q","l">>, <<"m","o","n","g","o","d","b">>, <<"r","e","d","i","s">> >>],
    [category |-> <<"c","l","o","u","d">>,
     keywords |-> << <<"a","w","s">>, <<"a","z","u","r","e">>, <<"g","c","p">>, <<"d","o","c","k","e","r">>,
                     <<"k","u","b","e","r","n","e","t","e","s">>, <<"c","l","o","u","d">> >>],
    [category |-> <<"d","e","v","o","p","s">>,
     keywords |-> << <<"d","o","c","k","e","r">>, <<"k","u","b","e","r","n","e","t","e","s">>, <<"c","i","/","c","d">>, <<"j","e","n","k","i","n","s">>, <<"g","i","t">> >>],
    [category |-> <<"f","u","l","l","s","t","a","c","k">>,
     keywords |-> << <<"m","e","r","n">>, <<"m","e","a","n">>, <<"r","e","a","c","t">>, <<"n","o","d","e">>,
                     <<"f","u","l","l"," ","s","t","a","c","k">>, <<"f","u","l","l","-","s","t","a","c","k">> >>] >>

\* skill_lower in keywords and any(kw in candidate_skill for kw in keywords)
CategoryHit(skill_lower, candidate_skill, keywords) ==
    /\ InList(skill_lower, keywords)
    /\ \E k \in DOMAIN keywords : Contains(candidate_skill, keywords[k])

\* the inner loops of one required skill over one candidate skill:
\* the annotation appended to partial_matches, or <<>> when none is
PartialWith(skill, skill_lower, candidate_skill) ==
    IF Contains(candidate_skill, skill_lower) \/ Contains(skill_lower, candidate_skill)
    THEN << skill \o <<" ","(","r","e","l","a","t","e","d",":"," ">> \o candidate_skill \o <<")">> >>
    ELSE LET hits == {c \in DOMAIN skill_categories :
                        CategoryHit(skill_lower, candidate_skill,
                                    skill_categories[c].keywords)}
         IN  IF hits = {}
             THEN <<>>
             ELSE LET c == CHOOSE h \in hits : \A g \in hits : h <= g
                  IN  << skill \o <<" ","(","c","a","t","e","g","o","r","y"," ","m","a","t","c","h",":"," ">>
                               \o skill_categories[c].category \o <<")">> >>

\* for candidate_skill in candidate_skills_lower: ... break at the first annotation
PartialOf(skill, skill_lower, cands) ==
    LET hits == {c \in DOMAIN cands : PartialWith(skill, skill_lower, cands[c]) # <<>>}
    IN  IF hits = {}
        THEN <<>>
        ELSE PartialWith(skill, skill_lower, cands[CHOOSE h \in hits : \A g \in hits : h <= g])

\* one turn of  for skill in required_skills:  which list the skill goes to
ClassifySkill(skill, cands) ==
    LET skill_lower == Strip(Lower(skill))
    IN  IF InList(skill_lower, cands)
        THEN [list |-> "matched", entry |-> skill]
        ELSE LET p == PartialOf(skill, skill_lower, cands)
             IN  IF p # <<>>
                 THEN [list |-> "partial", entry |-> p[1]]
                 ELSE [list |-> "missing", entry |-> skill]

\* the turns of  for skill in required_skills:  in order
classify_skills(required_skills, cands) ==
    [i \in DOMAIN required_skills |-> ClassifySkill(required_skills[i], cands)]

\* the entries appended to one of the three lists, in the order of the loop
EntriesInto(list, classified) ==
    LET chosen == SelectSeq(classified, LAMBDA c : c.list = list)
    IN  [i \in DOMAIN chosen |-> chosen[i].entry]

\* missing_skills when a partial match does not set matched
missing_skills_with_partial(classified) ==
    LET chosen == SelectSeq(classified, LAMBDA c : c.list # "matched")
    IN  [i \in DOMAIN chosen |-> chosen[i].entry]

matched_skills(classified) == EntriesInto("matched", classified)
partial_matches(classified) == EntriesInto("partial", classified)
missing_skills(classified) == EntriesInto("missing", classified)

\* int(c) for a digit character
DigitValue(c) == (CHOOSE i \in DOMAIN Digits : Digits[i] = c) - 1

\* int(s) for a string of digits ("" counts 0)
RECURSIVE DigitsValue(_)
DigitsValue(s) ==
    IF s = <<>> THEN 0
    ELSE DigitsValue(SubSeq(s, 1, Len(s) - 1)) * 10 + DigitValue(s[Len(s)])

\* exp_years, in tenths of a year:
\*   try: float(re.sub(r'[^0-9.]', '', str(experience_years_str)))  except: 0
\* for strings that carry at most one digit after the decimal point
exp_years_tenths(experience_years_str) ==
    LET kept   == SelectSeq(experience_years_str, LAMBDA c : c \in DigitSet \/ c = ".")
        dots   == {i \in DOMAIN kept : kept[i] = "."}
        dot    == IF dots = {} THEN Len(kept) + 1 ELSE CHOOSE i \in dots : TRUE
        whole  == SubSeq(kept, 1, dot - 1)
        frac   == SubSeq(kept, dot + 1, Len(kept))
    IN  IF Cardinality(dots) > 1 \/ Len(kept) = Cardinality(dots)
        THEN 0                                  \* float() raises ValueError
        ELSE DigitsValue(whole) * 10 + (IF frac = <<>> THEN 0 ELSE DigitValue(frac[1]))

\* the keys of an entry whose value is a list of strings
ListKeys == {"responsibilities", "technologies"}

\* word in str(entry).lower(), for a word without quote, colon, comma, brace or
\* bracket: it lies inside one value of the dict (no key of either profile schema
\* holds 'intern', 'production' or 'deploy')
Mentions(entry, word) ==
    \E k \in DOMAIN entry :
        IF k \in ListKeys
        THEN \E i \in DOMAIN entry[k] : Contains(Lower(entry[k][i]), word)
        ELSE Contains(Lower(entry[k]), word)

has_internship(profile) ==
    LET experience == DictGet(profile, "experience", <<>>)
    IN  \E i \in DOMAIN experience :
            Mentions(experience[i], <<"i","n","t","e","r","n">>) \/ Mentions(experience[i], <<"i","n","t","e","r","n","s","h","i","p">>)

has_production(profile) ==
    LET projects == DictGet(profile, "projects", <<>>)
    IN  \E i \in DOMAIN projects :
            Mentions(projects[i], <<"p","r","o","d","u","c","t","i","o","n">>) \/ Mentions(projects[i], <<"d","e","p","l","o","y">>)

project_count(profile) == Len(DictGet(profile, "projects", <<>>))

\* total_equivalent_years, in tenths: exp_years + project_count / 2.0 + 0.5 if has_internship
total_equivalent_tenths(profile) ==
    exp_years_tenths(DictGet(profile, "experience_years", <<"0">>))
    + project_count(profile) * 5
    + (IF has_internship(profile) THEN 5 ELSE 0)

\* the core score with the weights of exact and partial matches exchanged
core_skills_score_swapped(n_matched, n_partial, n_required) ==
    LET required_count      == IF n_required > 0 THEN n_required ELSE 1
        exact_match_score   == FMulInt(FDiv(n_matched, required_count), 20)
        partial_match_score == FMulInt(FDiv(n_partial, required_count), 40)
    IN  FMinInt(40, FAdd(exact_match_score, partial_match_score))

\* the core score that counts a job without required skills as fully matched
core_skills_score_vacuous(n_matched, n_partial, n_required) ==
    IF n_required = 0 THEN FInt(40)
    ELSE FMinInt(40, FAdd(FMulInt(FDiv(n_matched, n_required), 40),
                          FMulInt(FDiv(n_partial, n_required), 20)))

\* Core Technical Skills: 40%
core_skills_score(n_matched, n_partial, n_required) ==
    LET required_count      == IF n_required > 0 THEN n_required ELSE 1
        exact_match_score   == FMulInt(FDiv(n_matched, required_count), 40)
        partial_match_score == FMulInt(FDiv(n_partial, required_count), 20)
    IN  FMinInt(40, FAdd(exact_match_score, partial_match_score))

\* Project & Practical Experience: 25%
project_score(n_projects, production) ==
    Min(25, n_projects * 5 + (IF production THEN 10 ELSE 0))

\* Tools & Ecosystem: 15%
tool_keywords == << <<"g","i","t">>, <<"d","o","c","k","e","r">>, <<"c","i","/","c","d">>, <<"c","l","o","u","d">>, <<"a","w","s">>, <<"a","z","u","r","e">> >>

tools_required(job) ==
    SelectSeq(DictGet(job, "required_skills", <<>>),
              LAMBDA s : \E t \in DOMAIN tool_keywords : Contains(Lower(s), tool_keywords[t]))

tools_matched(tr, cands) ==
    Cardinality({i \in DOMAIN tr : \E c \in DOMAIN cands : Contains(cands[c], Lower(tr[i]))})

tools_score(n_matched, n_required) ==
    IF n_required > 0 THEN FMulInt(FDiv(n_matched, n_required), 15) ELSE FInt(0)

\* Experience Alignment: 10%
exp_target(job) ==
    LET experience_level == Lower(DictGet(job, "experience_level", <<"m","i","d">>))
    IN  IF experience_level = <<"e","n","t","r","y">> THEN 1
        ELSE IF experience_level = <<"s","e","n","i","o","r">> THEN 5
        ELSE 3

exp_score(total_tenths, target) ==
    IF total_tenths >= target * 10 THEN 10
    ELSE IF total_tenths >= target * 5 THEN 7
    ELSE IF total_tenths > 0 THEN 5
    ELSE 2

\* Soft Skills & Collaboration: 10%
candidate_soft(profile) ==
    LET sk == candidate_skills_dict(profile)
    IN  IF sk.kind = "dict" THEN DictGet(sk.value, "soft_skills", <<>>) ELSE <<>>

soft_matched(profile, job) ==
    LET soft_skills == DictGet(job, "soft_skills", <<>>)
        cs          == candidate_soft(profile)
    IN  Cardinality({i \in DOMAIN soft_skills :
            \E c \in DOMAIN cs : Contains(Lower(cs[c]), Lower(soft_skills[i]))})

soft_score(n_matched, n_required) ==
    IF n_required > 0 THEN FMulInt(FDiv(n_matched, n_required), 10) ELSE FInt(5)

\* the total without the soft-skill component
total_score_without_soft(core, project, tools, exp, soft) ==
    FAdd(FAdd(FAdd(core, FInt(project)), tools), FInt(exp))

\* the percentage without the floor of 5
match_percentage_unfloored(total) == Max(0, Min(100, FTrunc(total)))

\* total_score = core_skills_score + project_score + tools_score + exp_score + soft_score
total_score(core, project, tools, exp, soft) ==
    FAdd(FAdd(FAdd(FAdd(core, FInt(project)), tools), FInt(exp)), soft)

\* match_percentage = max(5, min(100, int(total_score)))
match_percentage(total) == Max(5, Min(100, FTrunc(total)))

\* the levels with the thresholds excluded: Strong above 80, Good above 60,
\* Moderate above 40
match_level_above(percentage) ==
    IF percentage > 80 THEN "Strong"
    ELSE IF percentage > 60 THEN "Good"
    ELSE IF percentage > 40 THEN "Moderate"
    ELSE "Low"

\* lines 285-292, and lines 125-132 with the same thresholds
match_level(percentage) ==
    IF percentage >= 80 THEN "Strong"
    ELSE IF percentage >= 60 THEN "Good"
    ELSE IF percentage >= 40 THEN "Moderate"
    ELSE "Low"

\* explanation_parts: one record per sentence of scoring_explanation, holding the
\* values the sentence prints
explanation_parts(n_matched, n_partial, core, n_projects, project, internship, n_tools_matched, n_tools_required, tools, total_tenths, target, exp, n_soft_matched, n_soft_required, soft, percentage, level) ==
    << [part |-> "Core Technical Skills", exact |-> n_matched,
        partial |-> n_partial, score |-> core] >>
    \o (IF n_projects > 0
        THEN << [part |-> "Project Experience", projects |-> n_projects,
                 equivalent_tenths |-> n_projects * 5, score |-> project] >>
        ELSE <<>>)
    \o (IF internship THEN << [part |-> "Internship experience"] >> ELSE <<>>)
    \o << [part |-> "Tools & Ecosystem", matched |-> n_tools_matched,
           required |-> n_tools_required, score |-> tools] >>
    \o << [part |-> "Experience Alignment", equivalent_tenths |-> total_tenths,
           required |-> target, score |-> exp] >>
    \o (IF n_soft_required > 0
        THEN << [part |-> "Soft Skills", matched |-> n_soft_matched,
                 required |-> n_soft_required, score |-> soft] >>
        ELSE <<>>)
    \o << [part |-> "Total Score", percentage |-> percentage, level |-> level] >>

\* _generate_fallback_match(candidate_profile, job_requirements)
generate_fallback_match(profile, job) ==
    LET required_skills == DictGet(job, "required_skills", <<>>)
        cands        == candidate_skills_lower(profile)
        classified   == classify_skills(required_skills, cands)
        matched      == matched_skills(classified)
        partial      == partial_matches(classified)
        missing      == missing_skills(classified)
        n_projects   == project_count(profile)
        internship   == has_internship(profile)
        total_tenths == total_equivalent_tenths(profile)
        core         == core_skills_score(Len(matched), Len(partial), Len(required_skills))
        project      == project_score(n_projects, has_production(profile))
        tools_list   == tools_required(job)
        n_tools      == Len(tools_list)
        n_tools_hit  == tools_matched(tools_list, cands)
        tools        == tools_score(n_tools_hit, n_tools)
        target       == exp_target(job)
        exp          == exp_score(total_tenths, target)
        n_soft       == Len(DictGet(job, "soft_skills", <<>>))
        n_soft_hit   == soft_matched(profile, job)
        soft         == soft_score(n_soft_hit, n_soft)
        percentage   == match_percentage(total_score(core, project, tools, exp, soft))
        level        == match_level(percentage)
    IN  [match_percentage    |-> percentage,
         match_level         |-> level,
         matched_skills      |-> matched,
         partial_matches     |-> partial,
         missing_skills      |-> missing,
         scoring_explanation |->
             explanation_parts(Len(matched), Len(partial), core, n_projects, project,
                               internship, n_tools_hit, n_tools, tools, total_tenths,
                               target, exp, n_soft_hit, n_soft, soft, percentage, level),
         fallback            |-> TRUE]

----------------------------------------------------------------------------
(* ResumeJDMatcher.match: the language model first, the deterministic      *)
(* matcher when it fails                                                   *)
(*                                                                         *)
(* What llm_service.generate_json answers:                                 *)
(*   [kind |-> "raises"]                 the call raises                   *)
(*   [kind |-> "other"]                  a value that is not a dict        *)
(*   [kind |-> "dict", value |-> d]      a dict d; a number under          *)
(*       "match_percentage" is [type |-> "int", value |-> n], a string     *)
(*       is [type |-> "str", text |-> s]                                   *)

\* int(float(s)) for a string s; Raised when float() raises ValueError.  The
\* strings are plain decimals ("72", "72.5") or hold a character that is no digit.
Raised == [raised |-> TRUE]
Returned(v) == [raised |-> FALSE, value |-> v]

IntOfFloatString(s) ==
    LET t    == Strip(s)
        dots == {i \in DOMAIN t : t[i] = "."}
        dot  == IF dots = {} THEN Len(t) + 1 ELSE CHOOSE i \in dots : TRUE
    IN  IF \/ \E i \in DOMAIN t : t[i] \notin DigitSet /\ t[i] # "."
           \/ Cardinality(dots) > 1
           \/ Len(t) = Cardinality(dots)
        THEN Raised
        ELSE Returned(DigitsValue(SubSeq(t, 1, dot - 1)))

\* lines 109-114: match_percentage read from the result and converted when a string
llm_match_percentage(d) ==
    IF "match_percentage" \notin DOMAIN d
    THEN 0
    ELSE IF d["match_percentage"].type = "str"
         THEN LET n == IntOfFloatString(d["match_percentage"].text)
              IN  IF n.raised THEN 0 ELSE n.value
         ELSE d["match_percentage"].value

\* lines 116-121: never 0 when the model listed a match
normalized_match_percentage(d) ==
    LET percentage == llm_match_percentage(d)
        matched    == DictGet(d, "matched_skills", <<>>)
        partial    == DictGet(d, "partial_matches", <<>>)
    IN  IF percentage = 0 /\ (matched # <<>> \/ partial # <<>>)
        THEN Max(15, Len(matched) * 10 + Len(partial) * 5)
        ELSE percentage

\* lines 104-145: the result dict after validation, as returned
normalized_result(d) ==
    LET percentage == normalized_match_percentage(d)
        matched    == DictGet(d, "matched_skills", <<>>)
        partial    == DictGet(d, "partial_matches", <<>>)
    IN  [match_percentage    |-> percentage,
         match_level         |-> IF "match_level" \in DOMAIN d
                                 THEN d["match_level"]
                                 ELSE match_level(percentage),
         matched_skills      |-> matched,
         partial_matches     |-> partial,
         missing_skills      |-> DictGet(d, "missing_skills", <<>>),
         scoring_explanation |->
             IF "scoring_explanation" \in DOMAIN d /\ d["scoring_explanation"] # <<>>
             THEN d["scoring_explanation"]
             ELSE << [part |-> "Match score", percentage |-> percentage,
                      exact |-> Len(matched), partial |-> Len(partial)] >>,
         fallback            |-> FALSE]

\* "API key" in error_msg or "authentication" in error_msg.lower()
is_auth_error(error_msg) ==
    Contains(error_msg, <<"A","P","I"," ","k","e","y">>) \/ Contains(Lower(error_msg), <<"a","u","t","h","e","n","t","i","c","a","t","i","o","n">>)

\* Python's None where a text is expected, written as one token no text contains
None == <<"None">>

\* job_requirements.get('experience_level', 'mid').lower() raises AttributeError
\* when the key is present and holds None
fallback_raises(job) == DictGet(job, "experience_level", <<"m","i","d">>) = None

\* the body of the try block, lines 94-145
match_try(result, profile, job) ==
    IF result.kind = "raises"
    THEN Raised
    ELSE IF result.kind = "dict" /\ DictGet(result.value, "error", FALSE)
    THEN IF is_auth_error(DictGet(result.value, "message", <<"U","n","k","n","o","w","n"," ","e","r","r","o","r">>))
         THEN Returned(generate_fallback_match(profile, job))
         ELSE Raised                                   \* raise ValueError(error_msg)
    ELSE IF result.kind # "dict"
    THEN Raised                                        \* raise ValueError(...)
    ELSE Returned(normalized_result(result.value))

\* match that answers an empty report when the try block raises
match_without_fallback(result, profile, job) ==
    LET body == match_try(result, profile, job)
    IN  IF body.raised
        THEN [match_percentage |-> 0, match_level |-> "Low", matched_skills |-> <<>>,
              partial_matches |-> <<>>, missing_skills |-> <<>>,
              scoring_explanation |-> <<>>, fallback |-> FALSE]
        ELSE body.value

\* the answer sends match to the deterministic matcher: it raised, it is an error
\* dict, or it is no dict
reaches_fallback(result) ==
    ~(result.kind = "dict" /\ ~DictGet(result.value, "error", FALSE))

\* match raises: nothing catches an exception of the deterministic matcher, called
\* from the except clause (line 150) or from the try block and then again
match_raises(result, profile, job) ==
    reaches_fallback(result) /\ fallback_raises(job)

\* match(candidate_profile, job_requirements), given the model's answer
match(result, profile, job) ==
    LET body == match_try(result, profile, job)
    IN  IF body.raised
        THEN generate_fallback_match(profile, job)     \* except Exception
        ELSE body.value

----------------------------------------------------------------------------
(* Parsing Pipeline: ResumeAnalyzerAgent, the deterministic parser         *)
(*                                                                         *)
(* A text is a sequence of characters.  A character outside ASCII is       *)
(* written by its code point: "U+2013" is the en dash, "U+2022" a bullet.  *)
(* The regular expressions are matched as Python's re module matches       *)
(* them (leftmost match, greedy quantifiers, ordered alternation) on       *)
(* texts made of the characters of CharOrder.                              *)

\* the glyphs of deco_pattern
DecoGlyphs ==
    {"U+00B7", "U+2022", "U+2502", "U+25A0", "U+25A1", "U+25AA", "U+25AB", "U+25B6",
     "U+25B8", "U+25B9", "U+25BA", "U+25BB", "U+25C6", "U+25C9", "U+25CB", "U+25CF",
     "U+25E6", "U+25FC", "U+25FE", "U+2605", "U+2606", "U+2713", "U+2714", "U+2726",
     "U+2727", "U+2756", "U+276F", "U+2794", "U+279C", "U+27A2", "U+27A3", "U+27A4",
     "U+F0B7"}

\* the characters of a text, in ascending code point order
CharOrder ==
    <<"\t", "\n", "\r", " ", "#", "%", "&", "(", ")", "+", ",", "-", ".", "/">>
    \o Digits \o <<":", ";", "@">> \o UpperLetters \o <<"_">> \o LowerLetters
    \o <<"|", "U+00B7", "U+2013", "U+2022", "U+2502", "U+25A0", "U+25A1", "U+25AA",
         "U+25AB", "U+25B6", "U+25B8", "U+25B9", "U+25BA", "U+25BB", "U+25C6",
         "U+25C9", "U+25CB", "U+25CF", "U+25E6", "U+25FC", "U+25FE", "U+2605",
         "U+2606", "U+2713", "U+2714", "U+2726", "U+2727", "U+2756", "U+276F",
         "U+2794", "U+279C", "U+27A2", "U+27A3", "U+27A4", "U+F0B7">>

\* ord(c), up to an increasing renumbering
Ord(c) == CHOOSE i \in DOMAIN CharOrder : CharOrder[i] = c

\* a < b for two strings: Python compares code point by code point
StrLess(a, b) ==
    \E k \in 1..(Min(Len(a), Len(b)) + 1) :
        /\ \A j \in 1..(k - 1) : a[j] = b[j]
        /\ \/ k > Len(a) /\ k <= Len(b)
           \/ k <= Len(a) /\ k <= Len(b) /\ Ord(a[k]) < Ord(b[k])

\* sorted(S) for a set S of strings
sorted(S) ==
    [k \in 1..Cardinality(S) |->
        CHOOSE x \in S : Cardinality({y \in S : StrLess(y, x)}) = k - 1]

SetMin(S) == CHOOSE x \in S : \A y \in S : x <= y
SetMax(S) == CHOOSE x \in S : \A y \in S : x >= y

\* the positions 1..n, to select from in ascending order
Indices(n) == [i \in 1..n |-> i]

\* the concatenation of the lists of l
RECURSIVE Concat(_)
Concat(l) == IF l = <<>> THEN <<>> ELSE Head(l) \o Concat(Tail(l))

\* sep.join(l)
Join(sep, l) == Concat([i \in DOMAIN l |-> IF i = 1 THEN l[i] ELSE sep \o l[i]])

\* the pieces of s between the positions of cuts (an ascending list), empty pieces kept
SplitAt(s, cuts) ==
    [k \in 1..(Len(cuts) + 1) |->
        SubSeq(s, IF k = 1 THEN 1 ELSE cuts[k - 1] + 1,
                  IF k = Len(cuts) + 1 THEN Len(s) ELSE cuts[k] - 1)]

\* re.split(r"[...]", s) for a class C of single characters; also s.split("\n")
re_split(s, C) == SplitAt(s, SelectSeq(Indices(Len(s)), LAMBDA i : s[i] \in C))

\* s.split(): the words of s
split_words(s) ==
    SelectSeq(SplitAt(s, SelectSeq(Indices(Len(s)), LAMBDA i : IsSpace(s[i]))),
              LAMBDA w : w # <<>>)

\* [t.strip() for t in pieces if t.strip()]
stripped_nonempty(pieces) ==
    SelectSeq([i \in DOMAIN pieces |-> Strip(pieces[i])], LAMBDA t : t # <<>>)

\* str.splitlines(): lines end at "\n", at "\r" and at "\r\n"; no empty last line
splitlines(s) ==
    LET ends  == SelectSeq(Indices(Len(s)), LAMBDA i :
                    s[i] = "\n" \/ (s[i] = "\r" /\ (i = Len(s) \/ s[i + 1] # "\n")))
        n     == Len(ends)
        first(k) == IF k = 1 THEN 1 ELSE ends[k - 1] + 1
        last(k)  == IF s[ends[k]] = "\n" /\ ends[k] > first(k) /\ s[ends[k] - 1] = "\r"
                    THEN ends[k] - 2 ELSE ends[k] - 1
        rest  == IF n = 0 THEN 1 ELSE ends[n] + 1
    IN  [k \in 1..n |-> SubSeq(s, first(k), last(k))]
        \o (IF rest <= Len(s) THEN << SubSeq(s, rest, Len(s)) >> ELSE <<>>)

\* the literal p stands in s at position i
At(s, i, p) == i >= 1 /\ i + Len(p) - 1 <= Len(s) /\ SubSeq(s, i, i + Len(p) - 1) = p

\* the end of the longest run of characters of C that starts at position i
\* (i - 1 when the character at i is not in C)
RunEnd(s, i, C) ==
    LET stops == {j \in i..Len(s) : s[j] \notin C}
    IN  IF stops = {} THEN Max(Len(s), i - 1) ELSE SetMin(stops) - 1

Letters    == UpperSet \cup LowerSet
WordChars  == Letters \cup DigitSet \cup {"_"}                     \* \w
Whitespace == {" ", "\t", "\n", "\r"}                              \* \s

\* \b between the positions i - 1 and i
IsWordAt(s, i) == i \in DOMAIN s /\ s[i] \in WordChars
Boundary(s, i) == IsWordAt(s, i - 1) # IsWordAt(s, i)

\* re.search(r"\b(w1|w2|...)\b", s) for words made of letters
HasWord(s, words) ==
    \E w \in words : \E i \in DOMAIN s :
        At(s, i, w) /\ Boundary(s, i) /\ Boundary(s, i + Len(w))

\* str(n) for a natural number n
RECURSIVE NatToStr(_)
NatToStr(n) ==
    IF n < 10 THEN << Digits[n + 1] >>
    ELSE NatToStr(n \div 10) \o << Digits[(n % 10) + 1] >>

----------------------------------------------------------------------------
(* Pass 1: _clean_text                                                     *)

\* a previous line shorter than this and without a final period takes the next one
WrapWidth == 48

\* re.sub(deco_pattern, " ", line)
sub_deco(line) == [i \in DOMAIN line |-> IF line[i] \in DecoGlyphs THEN " " ELSE line[i]]

\* re.sub(r"\s{2,}", " ", line)
collapse_spaces(line) ==
    LET ws(i) == i \in DOMAIN line /\ line[i] \in Whitespace
        kept  == SelectSeq(Indices(Len(line)), LAMBDA i : ~(ws(i) /\ ws(i - 1)))
    IN  [k \in DOMAIN kept |->
            IF ws(kept[k]) /\ ws(kept[k] + 1) THEN " " ELSE line[kept[k]]]

clean_line(line) == Strip(collapse_spaces(sub_deco(line)))

AllDigits(s) == s # <<>> /\ \A i \in DOMAIN s : s[i] \in DigitSet

\* re.fullmatch(r"\d+\s*/\s*\d+|\d+", line)
is_page_number(line) ==
    \/ AllDigits(line)
    \/ \E k \in DOMAIN line :
        /\ line[k] = "/"
        /\ AllDigits(RStrip(SubSeq(line, 1, k - 1)))
        /\ AllDigits(LStrip(SubSeq(line, k + 1, Len(line))))

\* re.search(r"page\s+\d+", line, re.IGNORECASE)
has_page_marker(line) ==
    \E i \in DOMAIN line :
        /\ At(Lower(line), i, <<"p","a","g","e">>)
        /\ \E j \in (i + 5)..Len(line) :
            /\ line[j] \in DigitSet
            /\ \A k \in (i + 4)..(j - 1) : line[k] \in Whitespace

\* the first loop: the cleaned lines that are kept
cleaned_lines(text) ==
    LET lines == splitlines(text)
    IN  SelectSeq([i \in DOMAIN lines |-> clean_line(lines[i])],
                  LAMBDA l : ~is_page_number(l) /\ ~has_page_marker(l))

\* the joining condition without its hyphen and en-dash clause
wraps_when_short(last) == Len(last) < WrapWidth /\ ~EndsWith(last, <<".">>)

\* the condition under which the next line is joined to the last merged one
wraps(last) ==
    \/ EndsWith(last, <<"-">>) \/ EndsWith(last, <<"U+2013">>)
    \/ (Len(last) < WrapWidth /\ ~EndsWith(last, <<".">>))

\* one turn of the second loop
merge_step(merged, line) ==
    IF merged # <<>> /\ wraps(merged[Len(merged)])
    THEN [merged EXCEPT ![Len(merged)] = Strip(@ \o <<" ">> \o line)]
    ELSE Append(merged, line)

RECURSIVE merge_lines(_, _, _)
merge_lines(lines, i, merged) ==
    IF i > Len(lines) THEN merged
    ELSE merge_lines(lines, i + 1, merge_step(merged, lines[i]))

clean_text(text) == Strip(Join(<<"\n">>, merge_lines(cleaned_lines(text), 1, <<>>)))

----------------------------------------------------------------------------
(* Pass 2: _detect_sections                                                *)

\* headers, in the order of the dict
headers ==
    << [key |-> "education",      aliases |-> << <<"e","d","u","c","a","t","i","o","n">>, <<"a","c","a","d","e","m","i","c"," ","b","a","c","k","g","r","o","u","n","d">>, <<"q","u","a","l","i","f","i","c","a","t","i","o","n">> >>],
       [key |-> "experience",     aliases |-> << <<"e","x","p","e","r","i","e","n","c","e">>, <<"w","o","r","k"," ","e","x","p","e","r","i","e","n","c","e">>, <<"i","n","t","e","r","n","s","h","i","p">>, <<"p","r","o","f","e","s","s","i","o","n","a","l"," ","e","x","p","e","r","i","e","n","c","e">> >>],
       [key |-> "projects",       aliases |-> << <<"p","r","o","j","e","c","t","s">>, <<"a","c","a","d","e","m","i","c"," ","p","r","o","j","e","c","t","s">>, <<"p","e","r","s","o","n","a","l"," ","p","r","o","j","e","c","t","s">> >>],
       [key |-> "skills",         aliases |-> << <<"s","k","i","l","l","s">>, <<"t","e","c","h","n","i","c","a","l"," ","s","k","i","l","l","s">>, <<"t","o","o","l","s"," ","&"," ","t","e","c","h","n","o","l","o","g","i","e","s">>, <<"t","e","c","h"," ","s","t","a","c","k">> >>],
       [key |-> "certifications", aliases |-> << <<"c","e","r","t","i","f","i","c","a","t","i","o","n","s">>, <<"c","o","u","r","s","e","s">>, <<"l","i","c","e","n","s","e","s">> >>] >>

SectionKeys == {headers[h].key : h \in DOMAIN headers}

\* found when the line is compared as it is written, not lower-cased
header_of_case_sensitive(line) ==
    LET hits == {h \in DOMAIN headers :
                    \E a \in DOMAIN headers[h].aliases :
                        StartsWith(line, headers[h].aliases[a])}
    IN  IF hits = {} THEN "" ELSE headers[SetMin(hits)].key

\* found: the key of the first header one of whose aliases the line starts with,
\* "" for None
header_of(line) ==
    LET lower == Lower(line)
        hits  == {h \in DOMAIN headers :
                    \E a \in DOMAIN headers[h].aliases :
                        StartsWith(lower, headers[h].aliases[a])}
    IN  IF hits = {} THEN "" ELSE headers[SetMin(hits)].key

detect_sections(text) ==
    LET lines   == splitlines(text)
        found   == [i \in DOMAIN lines |-> header_of(lines[i])]
        \* current when line i is reached
        current(i) ==
            LET seen == {j \in 1..i : found[j] # ""}
            IN  IF seen = {} THEN "" ELSE found[SetMax(seen)]
    IN  [key \in SectionKeys |->
            LET body == SelectSeq(Indices(Len(lines)), LAMBDA i : found[i] = "" /\ current(i) = key)
            IN  [k \in DOMAIN body |-> lines[body[k]]]]

----------------------------------------------------------------------------
(* Pass 3: _extract_fields                                                 *)

\* r"\b[A-Za-z0-9._%+-]+@[A-Za-z0-9.-]+\.[A-Za-z]{2,}\b" matched at position i:
\* the position of the last character, 0 when there is no match
LocalChars  == Letters \cup DigitSet \cup {".", "_", "%", "+", "-"}
DomainChars == Letters \cup DigitSet \cup {".", "-"}

\* the ends d of the domain part that let the rest match, given the "@" at a
email_domain_ends(s, a) ==
    {d \in (a + 1)..(RunEnd(s, a + 1, DomainChars) - 3) :
        /\ s[d + 1] = "."
        /\ RunEnd(s, d + 2, Letters) >= d + 3
        /\ ~IsWordAt(s, RunEnd(s, d + 2, Letters) + 1)}

email_end(s, i) ==
    LET a == RunEnd(s, i, LocalChars) + 1
    IN  IF /\ Boundary(s, i)
           /\ a > i /\ a <= Len(s) /\ s[a] = "@"
           /\ email_domain_ends(s, a) # {}
        THEN RunEnd(s, SetMax(email_domain_ends(s, a)) + 2, Letters)
        ELSE 0

\* r"[\+]?[(]?[0-9]{3}[)]?[-\s\.]?[0-9]{3}[-\s\.]?[0-9]{4,6}" matched at position i
PhoneSeparators == {"-", "."} \cup Whitespace

\* the position after an optional character of C at position i
Optional(s, i, C) == IF i <= Len(s) /\ s[i] \in C THEN i + 1 ELSE i

DigitsAt(s, i, n) == i + n - 1 <= Len(s) /\ \A k \in i..(i + n - 1) : s[k] \in DigitSet

phone_end(s, i) ==
    LET area   == Optional(s, Optional(s, i, {"+"}), {"("})
        prefix == Optional(s, Optional(s, area + 3, {")"}), PhoneSeparators)
        line   == Optional(s, prefix + 3, PhoneSeparators)
        last   == Min(RunEnd(s, line, DigitSet), line + 5)
    IN  IF DigitsAt(s, area, 3) /\ DigitsAt(s, prefix, 3) /\ last >= line + 3
        THEN last
        ELSE 0

\* r"(20\d{2}|19\d{2})" matched at position i
YearAt(s, i) ==
    /\ i >= 1 /\ i + 3 <= Len(s)
    /\ (s[i] = "2" /\ s[i + 1] = "0") \/ (s[i] = "1" /\ s[i + 1] = "9")
    /\ s[i + 2] \in DigitSet /\ s[i + 3] \in DigitSet

year_end(s, i) == IF YearAt(s, i) THEN i + 3 ELSE 0

\* r"(\b\d+\s*(months?|years?|yrs?)\b)" with re.IGNORECASE matched at position i
DurationUnits == { <<"m","o","n","t","h">>, <<"y","e","a","r">>, <<"y","r">> }

duration_end(s, i) ==
    LET unit  == RunEnd(s, RunEnd(s, i, DigitSet) + 1, Whitespace) + 1
        lower == Lower(s)
        names == {u \in DurationUnits : At(lower, unit, u)}
        stem  == unit + Len(CHOOSE u \in names : TRUE) - 1
    IN  IF ~(Boundary(s, i) /\ i \in DOMAIN s /\ s[i] \in DigitSet) \/ names = {}
        THEN 0
        ELSE IF stem + 1 <= Len(s) /\ lower[stem + 1] = "s" /\ ~IsWordAt(s, stem + 2)
        THEN stem + 1
        ELSE IF ~IsWordAt(s, stem + 1)
        THEN stem
        ELSE 0

\* r"\b[A-Za-z\+\#\.]{2,}\b" matched at position i
TechChars == Letters \cup {"+", "#", "."}

tech_ends(s, i) == {e \in (i + 1)..RunEnd(s, i, TechChars) : Boundary(s, e + 1)}

tech_end(s, i) ==
    IF Boundary(s, i) /\ tech_ends(s, i) # {} THEN SetMax(tech_ends(s, i)) ELSE 0

\* _first_match(pattern, text): the leftmost match, "" when there is none
\* ends[i] is where the pattern's match at position i ends, 0 when it has none
first_match(ends, text) ==
    LET starts == {i \in DOMAIN text : ends[i] > 0}
    IN  IF starts = {} THEN <<>>
        ELSE SubSeq(text, SetMin(starts), ends[SetMin(starts)])

\* re.findall(r"\b[A-Za-z\+\#\.]{2,}\b", line), from position pos on
RECURSIVE tech_tokens_from(_, _)
tech_tokens_from(line, pos) ==
    LET starts == {i \in pos..Len(line) : tech_end(line, i) > 0}
    IN  IF starts = {} THEN <<>>
        ELSE << SubSeq(line, SetMin(starts), tech_end(line, SetMin(starts))) >>
             \o tech_tokens_from(line, tech_end(line, SetMin(starts)) + 1)

\* tokens = [t.strip() for t in re.split(r"[|,-]", line) if t.strip()]
tokens_of(line) == stripped_nonempty(re_split(line, {"|", ",", "-"}))

TokenOr(tokens, i, default) == IF Len(tokens) >= i THEN tokens[i] ELSE default

\* x or default
OrElse(x, default) == IF x # <<>> THEN x ELSE default

\* the lines of a section that are not blank
section_lines(sections, key) ==
    SelectSeq(DictGet(sections, key, <<>>), LAMBDA line : Strip(line) # <<>>)

education_entry(line) ==
    [degree      |-> TokenOr(tokens_of(line), 1, <<>>),
     field       |-> <<>>,
     institution |-> TokenOr(tokens_of(line), 2, <<>>),
     year        |-> OrElse(first_match([i \in DOMAIN line |-> year_end(line, i)], line), <<>>),
     confidence  |-> <<"e","x","p","l","i","c","i","t">>]

\* the experience entry whose duration is never read from the line
experience_entry_untimed(line) ==
    [title            |-> TokenOr(tokens_of(line), 1, <<>>),
     organization     |-> TokenOr(tokens_of(line), 2, <<>>),
     duration         |-> <<"u","n","k","n","o","w","n">>,
     responsibilities |-> <<>>,
     confidence       |-> <<"e","x","p","l","i","c","i","t">>]

experience_entry(line) ==
    [title            |-> TokenOr(tokens_of(line), 1, <<>>),
     organization     |-> TokenOr(tokens_of(line), 2, <<>>),
     duration         |-> OrElse(first_match([i \in DOMAIN line |-> duration_end(line, i)], line), <<"u","n","k","n","o","w","n">>),
     responsibilities |-> <<>>,
     confidence       |-> <<"e","x","p","l","i","c","i","t">>]

project_entry(line) ==
    [name         |-> TokenOr(tokens_of(line), 1, <<>>),
     technologies |-> tech_tokens_from(line, 1),
     description  |-> TokenOr(tokens_of(line), 2, <<>>),
     confidence   |-> <<"e","x","p","l","i","c","i","t">>]

certification_entry(line) == [name |-> Strip(line), confidence |-> <<"e","x","p","l","i","c","i","t">>]

\* skills_set: the trimmed non-empty tokens of the lines under the skills header
skills_set(skills_raw) ==
    UNION { Range(stripped_nonempty(re_split(skills_raw[l], {";", ",", "/", "|"}))) :
              l \in DOMAIN skills_raw }

\* _extract_name(text, email, phone)
NameLines == 8
MinNameWords == 2
MaxNameWords == 4

forbidden == { <<"e","d","u","c","a","t","i","o","n">>, <<"e","x","p","e","r","i","e","n","c","e">>, <<"s","k","i","l","l","s">>, <<"p","r","o","j","e","c","t","s">>, <<"c","e","r","t","i","f","i","c","a","t","i","o","n","s">>, <<"s","u","m","m","a","r","y">> }

\* 2-4 words, title case, alphabetic
looks_like_name(line) ==
    LET words == split_words(line)
    IN  /\ MinNameWords <= Len(words) /\ Len(words) <= MaxNameWords
        /\ \A w \in DOMAIN words :
            words[w][1] \in UpperSet /\ \A c \in DOMAIN words[w] : words[w][c] \in Letters

\* the lines _extract_name would accept if it tried them in document order only
accepted_names_in_document_order(text, email, phone) ==
    LET all_lines  == stripped_nonempty(re_split(text, {"\n"}))
        candidates == SubSeq(all_lines, 1, Min(NameLines, Len(all_lines)))
    IN  SelectSeq(candidates, LAMBDA line :
            Lower(line) \notin forbidden /\ looks_like_name(line))

\* the lines _extract_name accepts, in the order it tries them
accepted_names(text, email, phone) ==
    LET all_lines  == stripped_nonempty(re_split(text, {"\n"}))
        candidates == SubSeq(all_lines, 1, Min(NameLines, Len(all_lines)))
        contacts   == {i \in DOMAIN candidates :
                         \/ email # <<>> /\ Contains(candidates[i], email)
                         \/ phone # <<>> /\ Contains(candidates[i], phone)}
        search_order ==
            (IF contacts = {} THEN <<>>
             ELSE << SetMin(contacts) - 1, SetMin(contacts) - 2, SetMin(contacts) + 1 >>)
            \o [i \in DOMAIN candidates |-> i]
        accepted   == SelectSeq(Indices(Len(search_order)), LAMBDA k :
                         /\ search_order[k] \in DOMAIN candidates
                         /\ Lower(candidates[search_order[k]]) \notin forbidden
                         /\ looks_like_name(candidates[search_order[k]]))
    IN  [k \in DOMAIN accepted |-> candidates[search_order[accepted[k]]]]

\* the name left empty when no line qualifies
extract_name_or_empty(text, email, phone) ==
    LET names == accepted_names(text, email, phone)
    IN  IF names = <<>> THEN <<>> ELSE names[1]

extract_name(text, email, phone) ==
    LET names == accepted_names(text, email, phone)
    IN  IF names = <<>> THEN <<"N","o","t"," ","F","o","u","n","d">> ELSE names[1]

\* the tokens under the skills header in the order the text lists them, each once
first_seen_skills(skills_raw) ==
    LET tokens == Concat([l \in DOMAIN skills_raw |->
                    stripped_nonempty(re_split(skills_raw[l], {";", ",", "/", "|"}))])
        first  == SelectSeq(Indices(Len(tokens)), LAMBDA i :
                    \A j \in 1..(i - 1) : tokens[j] # tokens[i])
    IN  [k \in DOMAIN first |-> tokens[first[k]]]

\* the orders in which iterating over a set of strings can yield its members: the
\* hash of a string differs from one process to the next
Iterations(S) ==
    { it \in [1..Cardinality(S) -> S] : \A i, j \in DOMAIN it : it[i] = it[j] => i = j }

\* list(skills_set): the members as the iteration yields them
technical_skills_unsorted(iteration) == iteration

\* sorted(skills_set), given the order in which the set yields its members
technical_skills_iterated(iteration) ==
    SortSeq(iteration, LAMBDA a, b : StrLess(a, b))

\* data["skills"]["technical"] = sorted(skills_set)
technical_skills(skills_raw) == sorted(skills_set(skills_raw))

extract_fields(sections, full_text) ==
    LET email == first_match([i \in DOMAIN full_text |-> email_end(full_text, i)], full_text)
        phone == first_match([i \in DOMAIN full_text |-> phone_end(full_text, i)], full_text)
        education      == section_lines(sections, "education")
        experience     == section_lines(sections, "experience")
        projects       == section_lines(sections, "projects")
        certifications == section_lines(sections, "certifications")
    IN  [personal_info  |-> [name     |-> extract_name(full_text, email, phone),
                             email    |-> email,
                             phone    |-> phone,
                             location |-> <<>>],
         education      |-> [i \in DOMAIN education |-> education_entry(education[i])],
         experience     |-> [i \in DOMAIN experience |-> experience_entry(experience[i])],
         projects       |-> [i \in DOMAIN projects |-> project_entry(projects[i])],
         skills         |-> [technical |-> technical_skills(DictGet(sections, "skills", <<>>)),
                             tools     |-> <<>>,
                             soft      |-> <<>>],
         certifications |-> [i \in DOMAIN certifications |->
                                certification_entry(certifications[i])]]

----------------------------------------------------------------------------
(* Pass 4: _normalize                                                      *)

norm_map ==
    { << <<"j","s">>, <<"J","a","v","a","S","c","r","i","p","t">> >>, << <<"j","a","v","a","s","c","r","i","p","t">>, <<"J","a","v","a","S","c","r","i","p","t">> >>,
      << <<"f","a","s","t"," ","a","p","i">>, <<"F","a","s","t","A","P","I">> >>, << <<"r","e","s","t"," ","a","p","i">>, <<"R","E","S","T"," ","A","P","I","s">> >>,
      << <<"r","e","s","t","f","u","l"," ","a","p","i">>, <<"R","E","S","T"," ","A","P","I","s">> >> }

stack_map ==
    { << <<"m","e","r","n">>, << <<"M","o","n","g","o","D","B">>, <<"E","x","p","r","e","s","s">>, <<"R","e","a","c","t">>, <<"N","o","d","e",".","j","s">> >> >>,
      << <<"m","e","a","n">>, << <<"M","o","n","g","o","D","B">>, <<"E","x","p","r","e","s","s">>, <<"A","n","g","u","l","a","r">>, <<"N","o","d","e",".","j","s">> >> >> }

normalize_token(tok) ==
    LET lower == Lower(tok)
    IN  IF \E e \in norm_map : e[1] = lower
        THEN << (CHOOSE e \in norm_map : e[1] = lower)[2] >>
        ELSE IF \E e \in stack_map : e[1] = lower
        THEN (CHOOSE e \in stack_map : e[1] = lower)[2]
        ELSE << tok >>

\* the second loop when seen holds the spellings as they are written
deduped_case_sensitive(normalized) ==
    LET first == SelectSeq(Indices(Len(normalized)), LAMBDA i :
                    \A j \in 1..(i - 1) : normalized[j] # normalized[i])
    IN  [k \in DOMAIN first |-> normalized[first[k]]]

\* the second loop: the first entry of every lower-cased spelling
deduped(normalized) ==
    LET first == SelectSeq(Indices(Len(normalized)), LAMBDA i :
                    \A j \in 1..(i - 1) : Lower(normalized[j]) # Lower(normalized[i]))
    IN  [k \in DOMAIN first |-> normalized[first[k]]]

normalize(data) ==
    LET technical == data.skills.technical
    IN  [data EXCEPT !.skills.technical =
            deduped(Concat([i \in DOMAIN technical |-> normalize_token(technical[i])]))]

----------------------------------------------------------------------------
(* Validation: _validate and _extract_experience_years                     *)

\* the year that "present" stands for
PresentYear == 2024
\* the months credited for a keyword hint
HintMonths == 6

\* r"(20\d{2}|19\d{2})\s*[-U+2013]\s*(present|20\d{2}|19\d{2})" with re.IGNORECASE
\* matched at position i: where the second group starts, 0 when there is no match
range_second(s, i) ==
    LET dash   == RunEnd(s, i + 4, Whitespace) + 1
        second == RunEnd(s, dash + 1, Whitespace) + 1
    IN  IF /\ YearAt(s, i)
           /\ dash <= Len(s) /\ s[dash] \in {"-", "U+2013"}
           /\ (At(Lower(s), second, <<"p","r","e","s","e","n","t">>) \/ YearAt(s, second))
        THEN second
        ELSE 0

range_end(s, i) ==
    IF range_second(s, i) = 0 THEN 0
    ELSE IF At(Lower(s), range_second(s, i), <<"p","r","e","s","e","n","t">>)
    THEN range_second(s, i) + 6
    ELSE range_second(s, i) + 3

\* the months of a range counted from its start year to its end year: (e - s) * 12
range_months_exclusive(s, i) ==
    LET start == DigitsValue(SubSeq(s, i, i + 3))
        end   == IF At(Lower(s), range_second(s, i), <<"p","r","e","s","e","n","t">>)
                 THEN PresentYear
                 ELSE DigitsValue(SubSeq(s, range_second(s, i), range_second(s, i) + 3))
    IN  IF end >= start THEN (end - start) * 12 ELSE 0

\* the months of a range that also counts a range whose end is before its start
range_months_either_way(s, i) ==
    LET start == DigitsValue(SubSeq(s, i, i + 3))
        end   == IF At(Lower(s), range_second(s, i), <<"p","r","e","s","e","n","t">>)
                 THEN PresentYear
                 ELSE DigitsValue(SubSeq(s, range_second(s, i), range_second(s, i) + 3))
    IN  IF end >= start THEN (end - start + 1) * 12 ELSE (start - end + 1) * 12

\* (e - s + 1) * 12 for the range matched at position i, 0 when e < s
range_months(s, i) ==
    LET start == DigitsValue(SubSeq(s, i, i + 3))
        end   == IF At(Lower(s), range_second(s, i), <<"p","r","e","s","e","n","t">>)
                 THEN PresentYear
                 ELSE DigitsValue(SubSeq(s, range_second(s, i), range_second(s, i) + 3))
    IN  IF end >= start THEN (end - start + 1) * 12 ELSE 0

\* total_months over re.findall(...), from position pos on
RECURSIVE total_months_from(_, _)
total_months_from(text, pos) ==
    LET starts == {i \in pos..Len(text) : range_end(text, i) > 0}
    IN  IF starts = {} THEN 0
        ELSE range_months(text, SetMin(starts))
             + total_months_from(text, range_end(text, SetMin(starts)) + 1)

\* f"{years} years" with years = max(0, round(total_months / 12, 1)); total_months
\* is HintMonths or a multiple of 12, so the quotient has at most one decimal
years_text(total_months) ==
    NatToStr(total_months \div 12) \o <<".">>
    \o NatToStr(((total_months % 12) * 10) \div 12) \o <<" ","y","e","a","r","s">>

\* the words of a student or fresher
is_fresher_text(lower) ==
    HasWord(lower, { <<"s","t","u","d","e","n","t">>, <<"f","r","e","s","h","e","r">>, <<"g","r","a","d","u","a","t","e">>, <<"g","r","a","d","u","a","t","i","n","g">> })

\* _extract_experience_years looking at the ranges and the keywords first
extract_experience_years_ranges_first(text, data) ==
    LET lower  == Lower(text)
        ranges == total_months_from(text, 1)
        total_months ==
            IF ranges = 0 /\ HasWord(lower, { <<"i","n","t","e","r","n">>, <<"i","n","t","e","r","n","s","h","i","p">>, <<"t","r","a","i","n","e","e">>, <<"d","e","v","e","l","o","p","e","r">>, <<"e","n","g","i","n","e","e","r">> })
            THEN HintMonths
            ELSE ranges
    IN  IF total_months # 0
        THEN years_text(total_months)
        ELSE IF data.experience = <<>> /\ (data.projects # <<>> \/ is_fresher_text(lower))
        THEN <<"F","r","e","s","h","e","r">>
        ELSE <<"N","o","t"," ","M","e","n","t","i","o","n","e","d">>

extract_experience_years(text, data) ==
    LET lower  == Lower(text)
        ranges == total_months_from(text, 1)
        total_months ==
            IF ranges = 0 /\ HasWord(lower, { <<"i","n","t","e","r","n">>, <<"i","n","t","e","r","n","s","h","i","p">>, <<"t","r","a","i","n","e","e">>, <<"d","e","v","e","l","o","p","e","r">>, <<"e","n","g","i","n","e","e","r">> })
            THEN HintMonths
            ELSE ranges
    IN  IF /\ data.experience = <<>>
           /\ \/ data.projects # <<>>
              \/ is_fresher_text(lower)
        THEN <<"F","r","e","s","h","e","r">>
        ELSE IF total_months = 0
        THEN <<"N","o","t"," ","M","e","n","t","i","o","n","e","d">>
        ELSE years_text(total_months)

\* the tags a confidence may keep (lines 195, 198, 201)
ConfidenceTags == { <<"e","x","p","l","i","c","i","t">>, <<"c","o","n","t","e","x","t","u","a","l">>, <<"u","n","c","e","r","t","a","i","n">> }

\* if x.get("confidence") not in (...): x["confidence"] = "explicit"
confidence_tagged(entries) ==
    [i \in DOMAIN entries |->
        IF "confidence" \in DOMAIN entries[i] /\ entries[i].confidence \in ConfidenceTags
        THEN entries[i]
        ELSE [k \in DOMAIN entries[i] \cup {"confidence"} |->
                 IF k = "confidence" THEN <<"e","x","p","l","i","c","i","t">> ELSE entries[i][k]]]

\* _validate keeping every entry, whatever its organization or technologies
validated_data_unfiltered(data, full_text) ==
    [k \in DOMAIN data \cup {"experience_years"} |->
        IF k = "experience_years"
        THEN extract_experience_years(full_text, data)
        ELSE IF k \in {"education", "experience", "projects"}
        THEN confidence_tagged(data[k])
        ELSE data[k]]

\* data when _validate returns: entries filtered, the confidence of the education,
\* experience and project entries coerced (certifications have no loop),
\* experience_years set
validated_data(data, full_text) ==
    LET kept == [k \in DOMAIN data |->
                    IF k = "experience"
                    THEN SelectSeq(data.experience, LAMBDA e : e.organization # <<>>)
                    ELSE IF k = "projects"
                    THEN SelectSeq(data.projects, LAMBDA p : p.technologies # <<>>)
                    ELSE data[k]]
    IN  [k \in DOMAIN kept \cup {"experience_years"} |->
            IF k = "experience_years"
            THEN extract_experience_years(full_text, kept)
            ELSE IF k \in {"education", "experience", "projects"}
            THEN confidence_tagged(kept[k])
            ELSE kept[k]]

\* strict_output: the schema of the dict _validate returns
strict_output(d) ==
        [personal_info    |-> [name     |-> d.personal_info.name,
                               email    |-> d.personal_info.email,
                               phone    |-> d.personal_info.phone,
                               location |-> d.personal_info.location],
         education        |-> d.education,
         experience       |-> d.experience,
         projects         |-> d.projects,
         skills           |-> [technical |-> d.skills.technical,
                               tools     |-> d.skills.tools,
                               soft      |-> d.skills.soft],
         certifications   |-> d.certifications,
         experience_years |-> d.experience_years]

\* the dict _validate returns
validate(data, full_text) == strict_output(validated_data(data, full_text))

\* analyze(resume_text)
analyze(text) ==
    LET cleaned_text == clean_text(text)
        found        == detect_sections(cleaned_text)
    IN  validate(normalize(extract_fields(found, cleaned_text)), cleaned_text)

----------------------------------------------------------------------------
(* Bounds of the model and the inputs drawn within them                    *)

MaxCandidateSkills == 2     \* entries of the candidate's technical skill list
MaxRequiredSkills == 2      \* required skills chosen freely
MaxPadding == 6             \* further required skills the candidate lacks
MaxProjects == 4            \* plain projects of a profile
MaxSoftRequired == 3        \* soft skills a job asks for
MaxCalls == 2               \* requests served in one behaviour

\* all sequences over S of length at most n
RECURSIVE SeqsUpTo(_, _)
SeqsUpTo(S, n) ==
    IF n = 0 THEN { <<>> }
    ELSE LET shorter == SeqsUpTo(S, n - 1)
         IN  shorter \cup { Append(s, x) : s \in shorter, x \in S }

\* n copies of x
Copies(x, n) == [i \in 1..n |-> x]

CandidateSkillNames == { <<"R","e","a","c","t">>, <<"J","a","v","a","S","c","r","i","p","t">> }
RequiredSkillNames  == { <<"r","e","a","c","t">>, <<"J","a","v","a">>, <<"D","o","c","k","e","r">> }
SoftSkillsAsked     == << <<"t","e","a","m","w","o","r","k">>, <<"L","e","a","d","e","r","s","h","i","p">>, <<"c","o","m","m","u","n","i","c","a","t","i","o","n">>, <<"M","e","n","t","o","r","i","n","g">> >>
SoftSkillLists      == { <<>>, << <<"T","e","a","m","w","o","r","k">> >>,
                         << <<"T","e","a","m","w","o","r","k">>, <<"C","o","m","m","u","n","i","c","a","t","i","o","n"," ","s","k","i","l","l","s">> >> }

\* the profile's skills in the schema the matcher reads, in the schema of the
\* parsing pipeline, and as a bare list
LlmSkills(technical, soft) ==
    PyDict([technical_skills |-> technical, soft_skills |-> soft])
PipelineSkills(technical, soft) ==
    PyDict([technical |-> technical, tools |-> <<>>, soft |-> soft])
ListSkills(technical) == PyList(technical)

SkillShapes(technical) ==
    { LlmSkills(technical, <<>>), LlmSkills(technical, << <<"T","e","a","m","w","o","r","k">> >>),
      PipelineSkills(technical, <<>>), ListSkills(technical) }

PlainProject ==
    [name |-> <<"C","h","a","t"," ","a","p","p">>, technologies |-> << <<"R","e","a","c","t">> >>,
     description |-> <<"C","l","a","s","s"," ","p","r","o","j","e","c","t">>, confidence |-> <<"e","x","p","l","i","c","i","t">>]
ProductionProject ==
    [name |-> <<"S","h","o","p">>, technologies |-> << <<"D","j","a","n","g","o">> >>,
     description |-> <<"D","e","p","l","o","y","e","d"," ","f","o","r"," ","a"," ","c","l","i","e","n","t">>, confidence |-> <<"e","x","p","l","i","c","i","t">>]

ProjectLists ==
    { Copies(PlainProject, k) \o tail :
        k \in 0..MaxProjects, tail \in { <<>>, << ProductionProject >> } }

InternEntry ==
    [title |-> <<"S","o","f","t","w","a","r","e"," ","I","n","t","e","r","n">>, organization |-> <<"X","Y","Z"," ","C","o","r","p">>,
     duration |-> <<"6"," ","m","o","n","t","h","s">>, responsibilities |-> <<>>, confidence |-> <<"e","x","p","l","i","c","i","t">>]
EngineerEntry ==
    [title |-> <<"E","n","g","i","n","e","e","r">>, organization |-> <<"A","B","C"," ","L","t","d">>,
     duration |-> <<"2"," ","y","e","a","r","s">>, responsibilities |-> << <<"B","u","i","l","t"," ","A","P","I","s">> >>,
     confidence |-> <<"e","x","p","l","i","c","i","t">>]

ExperienceLists == { <<>>, << InternEntry >>, << EngineerEntry >> }
ExperienceYears == { <<"F","r","e","s","h","e","r">>, <<"0",".","5"," ","y","e","a","r","s">>, <<"4",".","0"," ","y","e","a","r","s">> }
ExperienceLevels == { <<"e","n","t","r","y">>, <<"M","i","d">>, <<"S","E","N","I","O","R">> }

\* profiles that differ in their skills
SkillProfiles ==
    { [skills |-> sk, projects |-> <<>>, experience |-> <<>>] :
        sk \in UNION { SkillShapes(t) :
                         t \in SeqsUpTo(CandidateSkillNames, MaxCandidateSkills) } }

SkillJobs ==
    { [required_skills |-> r] : r \in SeqsUpTo(RequiredSkillNames, MaxRequiredSkills) }

\* profiles that differ in projects, experience and stated years
BackgroundProfiles ==
    { [skills |-> LlmSkills(<< <<"R","e","a","c","t">> >>, <<>>), projects |-> p,
       experience |-> e, experience_years |-> y] :
        p \in ProjectLists, e \in ExperienceLists, y \in ExperienceYears }

BackgroundJobs ==
    { [required_skills |-> <<>>, soft_skills |-> <<>>, experience_level |-> l] :
        l \in ExperienceLevels }
    \cup { [required_skills |-> << <<"r","e","a","c","t">> >>] }

\* jobs that ask for many skills the candidate lacks, and for soft skills
RatioProfiles ==
    { [skills |-> LlmSkills(<< <<"J","a","v","a","S","c","r","i","p","t">>, <<" ","a","w","s"," ">> >>, s),
       experience_years |-> <<"N","o","t"," ","M","e","n","t","i","o","n","e","d">>] : s \in SoftSkillLists }

RatioJobs ==
    { [required_skills |-> base \o Copies(<<"S","Q","L">>, k),
       soft_skills |-> SubSeq(SoftSkillsAsked, 1, n)] :
        base \in { <<>>, << <<"J","a","v","a">> >>, << <<"A","W","S">> >>, << <<"J","a","v","a">>, <<"D","o","c","k","e","r">> >>,
                   << <<"P","y","t","h","o","n">> >> },
        k \in 0..MaxPadding, n \in 0..MaxSoftRequired }

MatchCases ==
    (SkillProfiles \X SkillJobs)
    \cup (BackgroundProfiles \X BackgroundJobs)
    \cup (RatioProfiles \X RatioJobs)

----------------------------------------------------------------------------
(* Inputs of the parsing pipeline                                          *)

MaxSkillTokens == 3         \* tokens on the line under the skills header

\* the tokens a resume lists under its skills header
SkillTokens == { <<"z","e","t","a">>, <<"A","l","p","h","a">>, <<"j","s">>, <<"J","S">>, <<"p","y","t","h","o","n">>, <<"P","y","t","h","o","n">>, <<"M","E","R","N">> }

\* a resume that is a skills section: the header, then one line of tokens
SkillsResume(tokens) == <<"S","k","i","l","l","s",".","\n">> \o Join(<<","," ">>, tokens)

SkillsResumes ==
    { SkillsResume(tokens) : tokens \in SeqsUpTo(SkillTokens, MaxSkillTokens) \ { <<>> } }

\* texts without any content
BlankResumes == { <<>>, <<" ">>, <<"\n">>, <<" ","\n","\t"," ">>, <<"\t","\r","\n"," "," ","\n">> }

\* texts that hold year ranges and nothing else
RangeResumes ==
    { <<"2","0","1","9","-","2","0","2","2">>, <<"2","0","1","9"," ","-"," ","2","0","2","2">>, <<"2","0","1","9","U+2013","2","0","2","2">>,
      <<"2","0","2","0","-","p","r","e","s","e","n","t">>, <<"2","0","1","5","-","2","0","1","5">>, <<"2","0","2","2","-","2","0","1","9">>, <<"2","0","1","9","-","2","0","2","2",".","\n","2","0","1","0"," ","-"," ","2","0","1","2">> }

\* whole resumes
WholeResumes ==
    { <<"J","a","n","e"," ","D","o","e","\n","j","a","n","e",".","d","o","e","@","m","a","i","l",".","e","x","a","m","p","l","e",".","c","o","m">>,
      <<"J","a","n","e"," ","D","o","e",".","\n","A","s","h","a"," ","R","a","o","\n","+","1"," ","(","5","5","5",")"," ","1","2","3","-","4","5","6","7",".","\n","E","d","u","c","a","t","i","o","n",".","\n","B",".","T","e","c","h",","," ","A","B","C"," ","U","n","i","v","e","r","s","i","t","y",","," ","2","0","2","2",".","\n","E","x","p","e","r","i","e","n","c","e",".","\n","S","o","f","t","w","a","r","e"," ","I","n","t","e","r","n",","," ","X","Y","Z"," ","C","o","r","p",","," ","6"," ","m","o","n","t","h","s",".","\n","H","e","l","p","e","r",".","\n","P","r","o","j","e","c","t","s",".","\n","C","h","a","t"," ","a","p","p"," ","-"," ","R","e","a","c","t"," ","a","n","d"," ","N","o","d","e",".","j","s",".","\n","1","2"," ","3","4",".","\n","S","k","i","l","l","s",".","\n","R","e","a","c","t",";"," ","j","s"," ","/"," ","D","o","c","k","e","r"," ","|"," ","r","e","a","c","t",".","\n","C","e","r","t","i","f","i","c","a","t","i","o","n","s",".","\n","A","W","S"," ","C","e","r","t","i","f","i","e","d",".">>,
      <<"E","D","U","C","A","T","I","O","N","\n","B",".","T","e","c","h",","," ","A","B","C"," ","U","n","i","v","e","r","s","i","t","y",","," ","2","0","2","2","\n","E","X","P","E","R","I","E","N","C","E","\n","S","o","f","t","w","a","r","e"," ","I","n","t","e","r","n",","," ","X","Y","Z"," ","C","o","r","p",","," ","6"," ","m","o","n","t","h","s">>,
      <<"U+2022">> \o <<" ","S","k","i","l","l","s",".","\n">> \o <<"U+2022">> \o <<" ","P","y","t","h","o","n"," ",";"," "," ","G","o",".","\n","3"," ","/"," ","4","\n","P","a","g","e"," ","2","\n","R","u","s","t">>,
      <<"P","r","o","j","e","c","t","s",".","\n","S","h","o","p",","," ","D","j","a","n","g","o",","," ","d","e","p","l","o","y","e","d"," ","f","o","r"," ","a"," ","c","l","i","e","n","t",".","\n","I"," ","a","m"," ","a"," ","g","r","a","d","u","a","t","e",".">>,
      <<"S","K","I","L","L","S","\n","P","y","t","h","o","n">>,
      <<"S","k","i","l","l","s",".","\n","M","E","R","N",","," ","r","e","a","c","t",","," ","j","s">>,
      <<"I"," ","a","m"," ","a"," ","g","r","a","d","u","a","t","e",".","\n","P","r","o","j","e","c","t","s",".","\n","S","h","o","p",","," ","D","j","a","n","g","o",","," ","b","u","i","l","t"," ","a","s"," ","a","n"," ","e","n","g","i","n","e","e","r"," ","2","0","1","9","-","2","0","2","2",".">>,
      <<"S","t","u","d","e","n","t"," ","2","0","1","9"," ","-"," ","2","0","2","2",".">>,
      <<"F","r","e","s","h","e","r",","," ","t","r","a","i","n","e","e"," ","d","e","v","e","l","o","p","e","r",".">>,
      <<"E","n","g","i","n","e","e","r"," ","2","0","2","2","-","2","0","1","9",".">>,
      <<"E","n","g","i","n","e","e","r"," ","2","0","1","9","-","P","R","E","S","E","N","T",","," ","2","0","1","0"," ","-"," ","2","0","1","2"," ","a","n","d"," ","2","0","1","5","-","2","0","1","4",".">>,
      <<"T","r","a","i","n","e","e"," ","d","e","v","e","l","o","p","e","r",".">> }

\* cleaned texts handed to the section detector: lines under headers
MaxLines == 4               \* lines of a cleaned text

SectionLines ==
    { <<"E","D","U","C","A","T","I","O","N">>, <<"B",".","T","e","c","h",","," ","A","B","C"," ","U","n","i","v","e","r","s","i","t","y",","," ","2","0","2","2">>, <<"E","X","P","E","R","I","E","N","C","E">>,
      <<"S","o","f","t","w","a","r","e"," ","I","n","t","e","r","n",","," ","X","Y","Z"," ","C","o","r","p",","," ","6"," ","m","o","n","t","h","s">>, <<"T","e","s","t","e","r"," ","-"," ","B","e","t","a"," ","L","t","d">> }

\* the lines at the head of a resume: names, a remark, an email, a phone number
HeaderLines ==
    { <<"A","s","h","a"," ","R","a","o">>, <<"J","a","n","e"," ","D","o","e">>, <<"n","o","t","e","s">>, <<"j","a","n","e","@","x",".","i","o">>, <<"5","5","5","-","1","2","3","-","4","5","6","7">> }

\* a name below more lines than _extract_name reads, and below as many as it reads
LongHeaders ==
    { Join(<<"\n">>, Copies(<<"n","o","t","e","s">>, n) \o << <<"J","a","n","e"," ","D","o","e">> >>) : n \in (NameLines - 1)..NameLines }

CleanedTexts ==
    { Join(<<"\n">>, lines) :
        lines \in (SeqsUpTo(SectionLines, MaxLines) \cup SeqsUpTo(HeaderLines, MaxLines)) \ { <<>> } }
    \cup LongHeaders
    \cup { <<"S","K","I","L","L","S","\n","j","s",","," ","M","E","R","N","\n","E","X","P","E","R","I","E","N","C","E","\n","H","e","l","p","e","r">>, <<"S","K","I","L","L","S","\n","P","y","t","h","o","n","\n","P","R","O","J","E","C","T","S","\n","1","2"," ","3","4">> }

ResumeTexts == SkillsResumes \cup BlankResumes \cup RangeResumes \cup WholeResumes

PipelineJobs ==
    { [required_skills |-> r] :
        r \in { << <<"p","y","t","h","o","n">> >>, << <<"A","l","p","h","a">>, <<"R","e","a","c","t">> >>, << <<"Z","e","t","a">>, <<"J","a","v","a","S","c","r","i","p","t">>, <<"D","o","c","k","e","r">> >> } }

----------------------------------------------------------------------------
(* What the language model answers                                         *)

\* d with the value v under the key k
With(d, k, v) == [x \in DOMAIN d \cup {k} |-> IF x = k THEN v ELSE d[x]]

\* d with the one value of vs under k, or d itself when vs is empty
WithOptional(d, k, vs) == IF vs = {} THEN d ELSE With(d, k, CHOOSE v \in vs : TRUE)

\* a key left out, or one of the values of S under it
MaybeOne(S) == { {} } \cup { {v} : v \in S }

\* jobs as the client posts them: a key may be absent, and may hold null
NullableJobs ==
    { WithOptional([required_skills |-> r], "experience_level", l) :
        r \in { <<>>, << <<"r","e","a","c","t">> >> },
        l \in MaybeOne(ExperienceLevels \cup {None}) }

LlmPercentages ==
    { [type |-> "int", value |-> 0], [type |-> "int", value |-> 72],
      [type |-> "int", value |-> 150] }
    \cup { [type |-> "int", value |-> n] : n \in {39, 40, 59, 60, 79, 80} }
    \cup {
      [type |-> "str", text |-> <<"8","5",".","5">>], [type |-> "str", text |-> <<"n","/","a">>] }

LlmLevels == { "Good", "Excellent" }

LlmMatched == { <<>>, << <<"R","e","a","c","t">> >> }

LlmResults ==
    { [kind |-> "dict",
       value |-> WithOptional(WithOptional([matched_skills |-> m], "match_percentage", p),
                              "match_level", l)] :
        m \in LlmMatched,
        p \in MaybeOne(LlmPercentages),
        l \in MaybeOne(LlmLevels) }

LlmErrors ==
    { [kind |-> "dict", value |-> [error |-> TRUE, message |-> <<"I","n","v","a","l","i","d"," ","A","P","I"," ","k","e","y">>]],
      [kind |-> "dict", value |-> [error |-> TRUE, message |-> <<"A","u","t","h","e","n","t","i","c","a","t","i","o","n"," ","f","a","i","l","e","d">>]],
      [kind |-> "dict", value |-> [error |-> TRUE, message |-> <<"R","a","t","e"," ","l","i","m","i","t"," ","e","x","c","e","e","d","e","d">>]],
      [kind |-> "dict", value |-> [error |-> TRUE]] }

LlmAnswers == { [kind |-> "raises"], [kind |-> "other"] } \cup LlmErrors \cup LlmResults

\* the requests served while the language model answers
LlmCases ==
    { [skills |-> sk, projects |-> << PlainProject >>] :
        sk \in { LlmSkills(<< <<"R","e","a","c","t">> >>, <<>>), PipelineSkills(<< <<"R","e","a","c","t">> >>, <<>>) } }
    \X { [required_skills |-> r] : r \in { <<>>, << <<"r","e","a","c","t">>, <<"D","o","c","k","e","r">> >> } }

----------------------------------------------------------------------------
(* The requests served                                                     *)

\* a variable that holds nothing yet
Nothing == <<>>

\* the profile as the client posts it back: request.resume_profile
request_profile(profile) == [profile EXCEPT !.skills = PyDict(@)]

\* ResumeAnalyzerAgent.analyze(resume_text) of the deterministic parser, pass by pass
Analyze ==
    /\ pc = "upload"
    /\ cleaned' = clean_text(resume_text)
    /\ detected' = detect_sections(cleaned')
    /\ extracted' = normalize(extract_fields(detected', cleaned'))
    /\ candidate_profile' = request_profile(validate(extracted', cleaned'))
    /\ pc' = "request"
    /\ UNCHANGED <<frames, resume_text, job_requirements, llm_result, llm_calls, report, previous>>

\* analyze(resume_text) once more on the same text, in a process that iterates over
\* skills_set in an order of its own
AnalyzeAgain ==
    /\ pc = "request"
    /\ previous = Nothing /\ llm_calls = 0
    /\ previous' = [profile |-> candidate_profile]
    /\ cleaned' = clean_text(resume_text)
    /\ detected' = detect_sections(cleaned')
    /\ \E iteration \in Iterations(skills_set(DictGet(detected', "skills", <<>>))) :
        extracted' = normalize([extract_fields(detected', cleaned') EXCEPT
                                  !.skills.technical = technical_skills_iterated(iteration)])
    /\ candidate_profile' = request_profile(validate(extracted', cleaned'))
    /\ UNCHANGED <<frames, pc, resume_text, job_requirements, llm_result, llm_calls, report>>

\* POST /match-resume-jd: match(request.resume_profile, request.job_requirements)
MatchWith(answers) ==
    /\ pc = "request"
    /\ \E answer \in answers :
        /\ llm_result' = answer
        /\ IF match_raises(answer, candidate_profile, job_requirements)
           THEN pc' = "raised" /\ UNCHANGED report
           ELSE pc' = "done" /\ report' = match(answer, candidate_profile, job_requirements)
    /\ llm_calls' = llm_calls + 1
    /\ UNCHANGED <<frames, resume_text, cleaned, detected, extracted, candidate_profile,
                   job_requirements, previous>>

\* the language model is unavailable: the call raises
MatchLlmDown == MatchWith({ [kind |-> "raises"] })

\* the language model answers, or fails
MatchLlm == MatchWith(LlmAnswers)

\* the call just served, kept to compare the next one with
LastCall ==
    [candidate_profile |-> candidate_profile, job_requirements |-> job_requirements,
     llm_result |-> llm_result, report |-> report]

\* the profile with one more skill, appended to the skills list or to one list of
\* the skills dict
WithSkill(profile, key, skill) ==
    LET sk == candidate_skills_dict(profile)
        grown == IF sk.kind = "list"
                 THEN PyList(Append(sk.value, skill))
                 ELSE PyDict([k \in DOMAIN sk.value \cup {key} |->
                                IF k = key
                                THEN Append(DictGet(sk.value, key, <<>>), skill)
                                ELSE sk.value[k]])
    IN  [k \in DOMAIN profile \cup {"skills"} |->
            IF k = "skills" THEN grown ELSE profile[k]]

SkillKeys(profile) ==
    LET sk == candidate_skills_dict(profile)
    IN  IF sk.kind = "list" THEN {"list"} ELSE DOMAIN sk.value \cup {"technical_skills"}

\* the client adds one of the job's required skills to the profile, as the job
\* spells it or in lower case, and asks again
AddRequiredSkill ==
    /\ pc = "done"
    /\ llm_calls < MaxCalls
    /\ \E i \in DOMAIN DictGet(job_requirements, "required_skills", <<>>) :
       \E key \in SkillKeys(candidate_profile) :
       \E skill \in { job_requirements["required_skills"][i],
                      Lower(job_requirements["required_skills"][i]) } :
            candidate_profile' = WithSkill(candidate_profile, key, skill)
    /\ previous' = LastCall
    /\ pc' = "request"
    /\ UNCHANGED <<frames, resume_text, cleaned, detected, extracted, job_requirements,
                   llm_result, llm_calls, report>>

\* the client sends the same request once more
Repeat ==
    /\ pc = "done"
    /\ llm_calls < MaxCalls
    /\ previous' = LastCall
    /\ pc' = "request"
    /\ UNCHANGED <<frames, resume_text, cleaned, detected, extracted, candidate_profile,
                   job_requirements, llm_result, llm_calls, report>>

\* no call served yet
Fresh ==
    /\ llm_result = Nothing /\ llm_calls = 0 /\ report = Nothing /\ previous = Nothing
    /\ frames = Nothing

\* no resume parsed: the client posts a profile of its own
Unparsed ==
    resume_text = Nothing /\ cleaned = Nothing /\ detected = Nothing /\ extracted = Nothing

\* the deterministic matcher on profiles and jobs of every shape
InitMatch ==
    /\ pc = "request"
    /\ \E c \in MatchCases : candidate_profile = c[1] /\ job_requirements = c[2]
    /\ Unparsed /\ Fresh

NextMatch == MatchLlmDown \/ AddRequiredSkill

SpecMatch == InitMatch /\ [][NextMatch]_vars

\* a resume parsed, its profile matched while the language model is unavailable
InitPipeline ==
    /\ pc = "upload"
    /\ resume_text \in ResumeTexts
    /\ job_requirements \in PipelineJobs
    /\ cleaned = Nothing /\ detected = Nothing /\ extracted = Nothing
    /\ candidate_profile = Nothing
    /\ Fresh

NextPipeline == Analyze \/ AnalyzeAgain \/ MatchLlmDown

SpecPipeline == InitPipeline /\ [][NextPipeline]_vars

\* requests whose job leaves experience_level out, names a level, or holds None
InitNullable ==
    /\ pc = "request"
    /\ candidate_profile \in BackgroundProfiles
    /\ job_requirements \in NullableJobs
    /\ Unparsed /\ Fresh

NextNullable == MatchLlmDown

SpecNullable == InitNullable /\ [][NextNullable]_vars

\* _detect_sections and _extract_fields on the cleaned text: passes 2 and 3
DetectAndExtract ==
    /\ pc = "cleaned"
    /\ detected' = detect_sections(cleaned)
    /\ extracted' = extract_fields(detected', cleaned)
    /\ pc' = "extracted"
    /\ UNCHANGED <<frames, resume_text, cleaned, candidate_profile, job_requirements,
                   llm_result, llm_calls, report, previous>>

\* _normalize(extracted): data["skills"]["technical"] = deduped assigns into the
\* dict it was given, and "return data" returns that dict
Normalize ==
    /\ pc = "extracted"
    /\ previous' = [argument |-> extracted, returns_argument |-> TRUE]
    /\ extracted' = normalize(extracted)
    /\ pc' = "normalized"
    /\ UNCHANGED <<frames, resume_text, cleaned, detected, candidate_profile, job_requirements,
                   llm_result, llm_calls, report>>

\* _validate(normalized, cleaned): lines 190-206 assign into the dict it was given,
\* and the return statement builds a new dict from it
Validate ==
    /\ pc = "normalized"
    /\ previous' = [argument |-> extracted, returns_argument |-> FALSE]
    /\ extracted' = validated_data(extracted, cleaned)
    /\ candidate_profile' = request_profile(strict_output(extracted'))
    /\ pc' = "validated"
    /\ UNCHANGED <<frames, resume_text, cleaned, detected, job_requirements,
                   llm_result, llm_calls, report>>

\* cleaned texts given to the section detector and the field extractor
InitExtract ==
    /\ pc = "cleaned"
    /\ cleaned \in CleanedTexts
    /\ resume_text = Nothing /\ detected = Nothing /\ extracted = Nothing
    /\ candidate_profile = Nothing /\ job_requirements = Nothing
    /\ Fresh

NextExtract == DetectAndExtract \/ Normalize \/ Validate

SpecExtract == InitExtract /\ [][NextExtract]_vars

\* Invocations in progress at once on resume_jd_matcher and resume_analyzer.  The
\* event loop runs a coroutine until it awaits: match awaits the language model
\* (line 94), analyze awaits nothing.  candidate_profile, job_requirements and
\* resume_text are parameters: each invocation holds its own.

\* the frame the invocations of one method would share if the arguments were
\* kept on the instance
shared_frame(all_frames, i) ==
    all_frames[CHOOSE j \in DOMAIN all_frames :
                  /\ all_frames[j].call = all_frames[i].call
                  /\ \A k \in 1..(j - 1) : all_frames[k].call # all_frames[i].call]

\* the frame of invocation i: its parameters and locals
own_frame(all_frames, i) == all_frames[i]

ConcurrentCases ==
    { << [skills |-> LlmSkills(<< <<"R","e","a","c","t">> >>, <<>>), projects |-> p],
         WithOptional([required_skills |-> << <<"r","e","a","c","t">>, <<"D","o","c","k","e","r">> >>], "experience_level", l) >> :
        p \in { <<>>, << PlainProject >> }, l \in MaybeOne({ <<"e","n","t","r","y">>, None }) }

ConcurrentTexts == { <<>>, <<"S","K","I","L","L","S","\n","P","y","t","h","o","n">>, <<"S","t","u","d","e","n","t"," ","2","0","1","9"," ","-"," ","2","0","2","2",".">> }

ConcurrentAnswers ==
    { [kind |-> "raises"],
      [kind |-> "dict", value |-> [matched_skills |-> << <<"R","e","a","c","t">> >>,
                                   match_percentage |-> [type |-> "int", value |-> 72]]] }

MatchFrames ==
    { [call |-> "match", at |-> "called", candidate_profile |-> c[1],
       job_requirements |-> c[2]] : c \in ConcurrentCases }

AnalyzeFrames ==
    { [call |-> "analyze", at |-> "called", resume_text |-> t] : t \in ConcurrentTexts }

\* match up to "await llm_service.generate_json(...)": the prompt is built and sent
CallLlm(i) ==
    /\ pc = "concurrent"
    /\ frames[i].call = "match" /\ frames[i].at = "called"
    /\ frames' = [frames EXCEPT ![i] = With(@, "at", "awaiting")]
    /\ llm_calls' = llm_calls + 1
    /\ UNCHANGED <<pc, resume_text, cleaned, detected, extracted, candidate_profile,
                   job_requirements, llm_result, report, previous>>

\* match from the answer of the language model to its return, or to its exception
ResumeMatch(i) ==
    /\ pc = "concurrent"
    /\ frames[i].call = "match" /\ frames[i].at = "awaiting"
    /\ \E answer \in ConcurrentAnswers :
        LET frame == own_frame(frames, i)
        IN  frames' = [frames EXCEPT ![i] =
                IF match_raises(answer, frame.candidate_profile, frame.job_requirements)
                THEN With(With(@, "answer", answer), "at", "raised")
                ELSE With(With(With(@, "answer", answer), "at", "returned"), "result",
                          match(answer, frame.candidate_profile, frame.job_requirements))]
    /\ UNCHANGED <<pc, resume_text, cleaned, detected, extracted, candidate_profile,
                   job_requirements, llm_result, llm_calls, report, previous>>

\* analyze from its call to its return: no await, so nothing runs in between
RunAnalyze(i) ==
    /\ pc = "concurrent"
    /\ frames[i].call = "analyze" /\ frames[i].at = "called"
    /\ frames' = [frames EXCEPT ![i] =
            With(With(@, "at", "returned"), "result",
                 analyze(own_frame(frames, i).resume_text))]
    /\ UNCHANGED <<pc, resume_text, cleaned, detected, extracted, candidate_profile,
                   job_requirements, llm_result, llm_calls, report, previous>>

\* two invocations, each a match or an analyze
InitConcurrent ==
    /\ pc = "concurrent"
    /\ \/ \E f \in MatchFrames, g \in MatchFrames : frames = << f, g >>
       \/ \E f \in MatchFrames, g \in AnalyzeFrames : frames = << f, g >>
       \/ \E f \in AnalyzeFrames, g \in MatchFrames : frames = << f, g >>
       \/ \E f \in AnalyzeFrames, g \in AnalyzeFrames : frames = << f, g >>
    /\ Unparsed
    /\ candidate_profile = Nothing /\ job_requirements = Nothing
    /\ llm_result = Nothing /\ llm_calls = 0 /\ report = Nothing /\ previous = Nothing

NextConcurrent ==
    \E i \in 1..2 : CallLlm(i) \/ ResumeMatch(i) \/ RunAnalyze(i)

SpecConcurrent == InitConcurrent /\ [][NextConcurrent]_vars

\* confidence values a caller of _validate can hand in: the three tags, another
\* word, and null
GivenConfidences == { <<"e","x","p","l","i","c","i","t">>, <<"c","o","n","t","e","x","t","u","a","l">>, <<"u","n","c","e","r","t","a","i","n">>, <<"h","i","g","h">>, None }

\* normalized data handed to _validate, one entry in each list; the education
\* entry may lack the key
TaggedData ==
    { [personal_info  |-> [name |-> <<"J","a","n","e"," ","D","o","e">>, email |-> <<>>, phone |-> <<>>,
                           location |-> <<>>],
       education      |-> << WithOptional([degree |-> <<"B",".","T","e","c","h">>, field |-> <<>>,
                                           institution |-> <<"A","B","C"," ","U","n","i","v","e","r","s","i","t","y">>,
                                           year |-> <<"2","0","2","2">>], "confidence", edu) >>,
       experience     |-> << [title |-> <<"S","o","f","t","w","a","r","e"," ","I","n","t","e","r","n">>, organization |-> <<"X","Y","Z"," ","C","o","r","p">>,
                              duration |-> <<"6"," ","m","o","n","t","h","s">>, responsibilities |-> <<>>,
                              confidence |-> exp] >>,
       projects       |-> << [name |-> <<"S","h","o","p">>, technologies |-> << <<"D","j","a","n","g","o">> >>,
                              description |-> <<>>, confidence |-> proj] >>,
       skills         |-> [technical |-> << <<"P","y","t","h","o","n">> >>, tools |-> <<>>, soft |-> <<>>],
       certifications |-> << [name |-> <<"A","W","S"," ","C","l","o","u","d"," ","P","r","a","c","t","i","t","i","o","n","e","r">>, confidence |-> cert] >>] :
        edu \in MaybeOne(GivenConfidences \ {<<"u","n","c","e","r","t","a","i","n">>}),
        exp \in GivenConfidences \ {<<"c","o","n","t","e","x","t","u","a","l">>},
        proj \in GivenConfidences \ {<<"e","x","p","l","i","c","i","t">>},
        cert \in GivenConfidences \ {None} }

\* _validate called on data whose entries carry any confidence
InitValidate ==
    /\ pc = "normalized"
    /\ extracted \in TaggedData
    /\ cleaned = <<"I","n","t","e","r","n"," ","a","t"," ","X","Y","Z"," ","C","o","r","p",","," ","2","0","1","9","-","2","0","2","2",".">>
    /\ resume_text = Nothing /\ detected = Nothing
    /\ candidate_profile = Nothing /\ job_requirements = Nothing
    /\ Fresh

NextValidate == Validate

SpecValidate == InitValidate /\ [][NextValidate]_vars

\* lines of raw resume text: a header, an entry that ends with a period, a name,
\* three lines of 48 characters or more, and two page counters
MaxRawLines == 3

RawLines ==
    { <<"E","X","P","E","R","I","E","N","C","E">>, <<"S","o","f","t","w","a","r","e"," ","I","n","t","e","r","n",","," ","X","Y","Z"," ","C","o","r","p",","," ","6"," ","m","o","n","t","h","s",".">>, <<"J","a","n","e"," ","D","o","e">>,
      <<"B","u","i","l","t"," ","t","h","e"," ","b","i","l","l","i","n","g"," ","s","e","r","v","i","c","e"," ","a","n","d"," ","i","t","s"," ","r","e","p","o","r","t","s"," ","f","o","r"," ","t","h","e"," ","c","l","i","e","n","t">>,
      <<"B","u","i","l","t"," ","t","h","e"," ","b","i","l","l","i","n","g"," ","s","e","r","v","i","c","e"," ","a","n","d"," ","t","h","e"," ","r","e","p","o","r","t","s"," ","f","o","r"," ","c","l","i","-">>,
      <<"W","o","r","k","e","d"," ","o","n"," ","t","h","e"," ","p","l","a","t","f","o","r","m"," ","t","e","a","m"," ","o","f"," ","X","Y","Z"," ","C","o","r","p"," ","f","r","o","m"," ","2","0","1","9"," ","U+2013">>,
      <<"3"," ","/"," ","7">>, <<"P","a","g","e"," ","2"," ","o","f"," ","7">> }

RawTexts ==
    { Join(<<"\n">>, lines) :
        lines \in UNION { [1..n -> RawLines] : n \in 0..MaxRawLines } }

\* cleaned_text = self._clean_text(resume_text): pass 1 alone
Clean ==
    /\ pc = "raw"
    /\ cleaned' = clean_text(resume_text)
    /\ pc' = "cleaned"
    /\ UNCHANGED <<frames, resume_text, detected, extracted, candidate_profile,
                   job_requirements, llm_result, llm_calls, report, previous>>

InitClean ==
    /\ pc = "raw"
    /\ resume_text \in RawTexts
    /\ cleaned = Nothing /\ detected = Nothing /\ extracted = Nothing
    /\ candidate_profile = Nothing /\ job_requirements = Nothing
    /\ Fresh

NextClean == Clean \/ DetectAndExtract

SpecClean == InitClean /\ [][NextClean]_vars

\* the same request served twice, the language model answering each time
InitLlm ==
    /\ pc = "request"
    /\ \E c \in LlmCases : candidate_profile = c[1] /\ job_requirements = c[2]
    /\ Unparsed /\ Fresh

NextLlm == MatchLlm \/ Repeat

SpecLlm == InitLlm /\ [][NextLlm]_vars

----------------------------------------------------------------------------
(* Properties of the parsing pipeline, checked under SpecPipeline          *)

\* the resume has been parsed: candidate_profile holds the profile of resume_text
Parsed == pc \in {"request", "done"}

\* the skill lists of a parsed profile
technical == candidate_profile.skills.value.technical
flattened_skills ==
    candidate_profile.skills.value.technical
    \o candidate_profile.skills.value.tools
    \o candidate_profile.skills.value.soft

required_skills == DictGet(job_requirements, "required_skills", <<>>)

\* C1, as the specification states it: when the profile the parsing pipeline
\* produced is matched against a job, every required skill that equals an entry of
\* the profile's skills flattened (technical, tools, soft), letter case aside, is
\* listed in matched_skills.
C1_FlattenedSkillsAreMatched ==
    pc = "done" =>
        \A i \in DOMAIN required_skills :
            (\E j \in DOMAIN flattened_skills :
                Lower(flattened_skills[j]) = Lower(required_skills[i]))
            => InList(required_skills[i], report.matched_skills)

\* C2, amended: the text "2019-2022" alone gives experience_years "4.0 years":
\* a range counts its first and its last year, (2022 - 2019 + 1) * 12 = 48 months.
C2_RangeCountsBothEndYears ==
    (Parsed /\ resume_text = <<"2","0","1","9","-","2","0","2","2">>)
        => candidate_profile.experience_years = <<"4",".","0"," ","y","e","a","r","s">>

C2_Witness ==
    /\ pc = "request"
    /\ resume_text = <<"2","0","1","9","-","2","0","2","2">>
    /\ cleaned = <<"2","0","1","9","-","2","0","2","2">>
    /\ candidate_profile.experience_years = <<"4",".","0"," ","y","e","a","r","s">>

\* C2, as the specification states it: the text "2019-2022" alone gives "3.0 years".
C2_ThreeYears ==
    (Parsed /\ resume_text = <<"2","0","1","9","-","2","0","2","2">>)
        => candidate_profile.experience_years = <<"3",".","0"," ","y","e","a","r","s">>

\* the text is empty or holds white space only
IsBlank(text) == \A i \in DOMAIN text : IsSpace(text[i])

\* the profile with every field at its empty default, under the given name
EmptyProfile(name) ==
    [personal_info    |-> [name |-> name, email |-> <<>>, phone |-> <<>>, location |-> <<>>],
     education        |-> <<>>,
     experience       |-> <<>>,
     projects         |-> <<>>,
     skills           |-> PyDict([technical |-> <<>>, tools |-> <<>>, soft |-> <<>>]),
     certifications   |-> <<>>,
     experience_years |-> <<"N","o","t"," ","M","e","n","t","i","o","n","e","d">>]

\* C3, amended: an empty or white-space-only text gives a profile, without raising,
\* whose name is the literal "Not Found", whose experience_years is
\* "Not Mentioned", and whose other fields are empty strings and empty lists.
C3_BlankTextGivesDefaultsAndNotFound ==
    (Parsed /\ IsBlank(resume_text)) => candidate_profile = EmptyProfile(<<"N","o","t"," ","F","o","u","n","d">>)

C3_Witness ==
    /\ pc = "request"
    /\ resume_text = <<" ","\n","\t"," ">>
    /\ cleaned = <<>>
    /\ candidate_profile.personal_info.name = <<"N","o","t"," ","F","o","u","n","d">>
    /\ candidate_profile.experience_years = <<"N","o","t"," ","M","e","n","t","i","o","n","e","d">>

\* C3, as the specification states it: an empty or white-space-only text gives a
\* profile with every field at its empty default, the name an empty string.
C3_BlankTextGivesEmptyName ==
    (Parsed /\ IsBlank(resume_text)) => candidate_profile = EmptyProfile(<<>>)

\* the tokens normalized and expanded one by one, then the first entry of every
\* lower-cased spelling
normalized_list(tokens) ==
    deduped(Concat([i \in DOMAIN tokens |-> normalize_token(tokens[i])]))

\* the lines under the skills header of the parsed text
skills_lines == DictGet(detected, "skills", <<>>)

\* C5, amended: skills.technical lists the distinct trimmed tokens of the skills
\* section in ascending code-point order, whatever their order in the text, each
\* normalized or expanded, and of entries that are equal letter case aside only
\* the first of that list is kept.
C5_TechnicalInCodePointOrder ==
    Parsed =>
        LET tokens == sorted(skills_set(skills_lines))
        IN  /\ technical = normalized_list(tokens)
            /\ \A i, j \in DOMAIN technical :
                i # j => Lower(technical[i]) # Lower(technical[j])
            /\ (\A t \in DOMAIN tokens : normalize_token(tokens[t]) = << tokens[t] >>)
                => \A i, j \in DOMAIN technical :
                    i < j => StrLess(technical[i], technical[j])

C5_Witness ==
    /\ pc = "request"
    /\ resume_text = <<"S","k","i","l","l","s",".","\n","z","e","t","a",","," ","A","l","p","h","a",","," ","j","s">>
    /\ technical = << <<"A","l","p","h","a">>, <<"J","a","v","a","S","c","r","i","p","t">>, <<"z","e","t","a">> >>

\* C5, as the specification states it: skills.technical lists the skills in the
\* order the text first shows them, entries equal letter case aside removed.
C5_TechnicalInFirstSeenOrder ==
    Parsed => technical = normalized_list(first_seen_skills(skills_lines))

----------------------------------------------------------------------------
(* Properties of match, checked under SpecLlm                              *)

\* the request just served is the request served before it
SameRequest ==
    /\ previous # Nothing
    /\ previous.candidate_profile = candidate_profile
    /\ previous.job_requirements = job_requirements

MatchLevels == {"Low", "Moderate", "Good", "Strong"}

\* C10, as the specification states it: every report match returns, normalized
\* from the language model's answer or computed by the deterministic matcher, has
\* an integer match_percentage from 0 to 100 and a match_level that is one of Low,
\* Moderate, Good, Strong.
C10_ReportWithinRange ==
    pc = "done" => /\ report.match_percentage \in 0..100
                   /\ report.match_level \in MatchLevels

----------------------------------------------------------------------------
(* Properties of the deterministic matcher, checked under SpecMatch        *)

\* the five components of the rubric for the request just served
core_component ==
    core_skills_score(Len(report.matched_skills), Len(report.partial_matches),
                      Len(required_skills))
project_component ==
    project_score(project_count(candidate_profile), has_production(candidate_profile))
tools_component ==
    tools_score(tools_matched(tools_required(job_requirements),
                              candidate_skills_lower(candidate_profile)),
                Len(tools_required(job_requirements)))
experience_component ==
    exp_score(total_equivalent_tenths(candidate_profile), exp_target(job_requirements))
soft_component ==
    soft_score(soft_matched(candidate_profile, job_requirements),
               Len(DictGet(job_requirements, "soft_skills", <<>>)))

\* their sum in double precision, added from left to right, truncated
truncated_sum ==
    FTrunc(FAdd(FAdd(FAdd(FAdd(core_component, FInt(project_component)), tools_component),
                     FInt(experience_component)), soft_component))

NoMatch == report.matched_skills = <<>> /\ report.partial_matches = <<>>

C8_AddingRequiredSkillNeverLowers ==
    (pc = "done" /\ previous # Nothing) =>
        report.match_percentage >= previous.report.match_percentage

C8_Witness ==
    /\ pc = "done"
    /\ previous # Nothing
    /\ previous.report.partial_matches # <<>>
    /\ report.partial_matches = <<>>
    /\ report.match_percentage > previous.report.match_percentage

\* C9: when matched_skills or partial_matches is not empty, match_percentage is at
\* least 5.
C9_FloorWhenAnySkillMatches ==
    (pc = "done" /\ ~NoMatch) => report.match_percentage >= 5

C9_Witness ==
    /\ pc = "done"
    /\ ~NoMatch
    /\ truncated_sum < 5
    /\ report.match_percentage = 5


----------------------------------------------------------------------------
(* The level of a report, checked under SpecLlm                            *)

\* the level of the report was computed by the code: the report is the
\* deterministic matcher's, or the language model's answer gave no match_level
LevelComputed ==
    \/ report.fallback
    \/ llm_result.kind = "dict" /\ "match_level" \notin DOMAIN llm_result.value

\* C11: in every report of the deterministic matcher, and whenever match fills in
\* a match_level the language model left out, match_level follows from the final
\* match_percentage: Strong iff it is at least 80, Good iff it is from 60 to 79,
\* Moderate iff it is from 40 to 59, Low iff it is below 40.
C11_LevelFollowsPercentage ==
    (pc = "done" /\ LevelComputed) =>
        /\ report.match_level = "Strong" <=> report.match_percentage >= 80
        /\ report.match_level = "Good"
            <=> (60 <= report.match_percentage /\ report.match_percentage < 80)
        /\ report.match_level = "Moderate"
            <=> (40 <= report.match_percentage /\ report.match_percentage < 60)
        /\ report.match_level = "Low" <=> report.match_percentage < 40

C11_Witness ==
    /\ pc = "done"
    /\ ~report.fallback
    /\ "match_level" \notin DOMAIN llm_result.value
    /\ report.match_percentage = 80
    /\ report.match_level = "Strong"


----------------------------------------------------------------------------
(* The classification of the required skills, checked under SpecMatch      *)

\* the skill, lower-cased and trimmed, is one of the candidate's skills
IsExact(skill) ==
    InList(Strip(Lower(skill)), candidate_skills_lower(candidate_profile))

\* (a): the skill is a substring of a candidate skill, or a candidate skill of it
SubstringRelated(skill) ==
    \E c \in DOMAIN candidate_skills_lower(candidate_profile) :
        \/ Contains(candidate_skills_lower(candidate_profile)[c], Strip(Lower(skill)))
        \/ Contains(Strip(Lower(skill)), candidate_skills_lower(candidate_profile)[c])

\* (b): the skill and a candidate skill are both keywords of one category
SameCategory(skill) ==
    \E c \in DOMAIN candidate_skills_lower(candidate_profile) :
    \E g \in DOMAIN skill_categories :
        /\ InList(Strip(Lower(skill)), skill_categories[g].keywords)
        /\ InList(candidate_skills_lower(candidate_profile)[c], skill_categories[g].keywords)

\* partial_matches holds an entry for the skill, annotated in brackets
ListedPartial(skill) ==
    \E j \in DOMAIN report.partial_matches :
        StartsWith(report.partial_matches[j], skill \o <<" ","(">>)

\* C12, as the specification states it: a required skill that is no exact match
\* is a partial match exactly when (a) it is a substring of a candidate skill or
\* a candidate skill is a substring of it, or (b) it and a candidate skill both
\* belong to the keyword list of one category; otherwise it is in missing_skills.
C12_PartialIffSubstringOrSameCategory ==
    pc = "done" =>
        \A i \in DOMAIN required_skills :
            ~IsExact(required_skills[i]) =>
                /\ ListedPartial(required_skills[i])
                    <=> (SubstringRelated(required_skills[i]) \/ SameCategory(required_skills[i]))
                /\ InList(required_skills[i], report.missing_skills)
                    <=> ~(SubstringRelated(required_skills[i]) \/ SameCategory(required_skills[i]))


----------------------------------------------------------------------------
(* The entries validation retains, checked under SpecPipeline              *)

\* C13: in every profile the parsing pipeline returns, every entry of experience
\* has a non-empty organization and every entry of projects has a non-empty
\* technologies list.
C13_RetainedEntriesComplete ==
    Parsed =>
        /\ \A i \in DOMAIN candidate_profile.experience :
                candidate_profile.experience[i].organization # <<>>
        /\ \A i \in DOMAIN candidate_profile.projects :
                candidate_profile.projects[i].technologies # <<>>

\* validation dropped an experience entry and a project, and kept one of each
C13_Witness ==
    /\ Parsed
    /\ \E i \in DOMAIN extracted.experience : extracted.experience[i].organization = <<>>
    /\ \E i \in DOMAIN extracted.projects : extracted.projects[i].technologies = <<>>
    /\ candidate_profile.experience # <<>>
    /\ candidate_profile.projects # <<>>


----------------------------------------------------------------------------
(* Exceptions of the core, checked under SpecNullable                      *)

\* C14, as the specification states it: the matching engine throws no exception,
\* whatever the profile and the job requirements hold; every call returns a report.
C14_NeverRaises == pc # "raised"


----------------------------------------------------------------------------
(* The first rule of the experience inference, checked under SpecPipeline  *)

\* the text the validator reads holds a year range or a keyword of employment
HasRangesOrHints ==
    \/ total_months_from(cleaned, 1) > 0
    \/ HasWord(Lower(cleaned), { <<"i","n","t","e","r","n">>, <<"i","n","t","e","r","n","s","h","i","p">>, <<"t","r","a","i","n","e","e">>, <<"d","e","v","e","l","o","p","e","r">>, <<"e","n","g","i","n","e","e","r">> })

\* C15: whenever no experience entry is retained and a project is retained or the
\* text holds the word student, fresher, graduate or graduating, experience_years
\* is "Fresher", whatever year ranges or keywords of employment the text holds.
C15_FresherTakesPrecedence ==
    (/\ Parsed
     /\ candidate_profile.experience = <<>>
     /\ candidate_profile.projects # <<>> \/ is_fresher_text(Lower(cleaned)))
        => candidate_profile.experience_years = <<"F","r","e","s","h","e","r">>

\* a text without experience section, with one project, the word "graduate" and a
\* year range: a fresher
C15_Witness ==
    /\ Parsed
    /\ detected.experience = <<>>
    /\ Len(candidate_profile.projects) = 1
    /\ HasWord(Lower(cleaned), { <<"g","r","a","d","u","a","t","e">> })
    /\ total_months_from(cleaned, 1) > 0
    /\ candidate_profile.experience_years = <<"F","r","e","s","h","e","r">>


----------------------------------------------------------------------------
(* Sections and fields of a cleaned text, checked under SpecExtract        *)

ExampleCleaned ==
    <<"E","D","U","C","A","T","I","O","N","\n","B",".","T","e","c","h",","," ","A","B","C"," ","U","n","i","v","e","r","s","i","t","y",","," ","2","0","2","2","\n","E","X","P","E","R","I","E","N","C","E","\n","S","o","f","t","w","a","r","e"," ","I","n","t","e","r","n",","," ","X","Y","Z"," ","C","o","r","p",","," ","6"," ","m","o","n","t","h","s">>

\* C16: from the cleaned text of the example, education is one entry with degree
\* "B.Tech", institution "ABC University" and year "2022", and experience is one
\* entry with title "Software Intern", organization "XYZ Corp" and duration
\* "6 months"; an experience line without a number has the duration "unknown".
C16_ExampleSectionsAndFields ==
    pc = "extracted" =>
        /\ cleaned = ExampleCleaned =>
                /\ Len(extracted.education) = 1
                /\ extracted.education[1].degree = <<"B",".","T","e","c","h">>
                /\ extracted.education[1].institution = <<"A","B","C"," ","U","n","i","v","e","r","s","i","t","y">>
                /\ extracted.education[1].year = <<"2","0","2","2">>
                /\ Len(extracted.experience) = 1
                /\ extracted.experience[1].title = <<"S","o","f","t","w","a","r","e"," ","I","n","t","e","r","n">>
                /\ extracted.experience[1].organization = <<"X","Y","Z"," ","C","o","r","p">>
                /\ extracted.experience[1].duration = <<"6"," ","m","o","n","t","h","s">>
        /\ \A i \in DOMAIN extracted.experience :
                (\A c \in DOMAIN detected.experience[i] :
                    detected.experience[i][c] \notin DigitSet)
                    => extracted.experience[i].duration = <<"u","n","k","n","o","w","n">>

\* the example went through both passes
C16_Witness ==
    /\ pc = "extracted"
    /\ cleaned = ExampleCleaned
    /\ extracted.experience[1].duration = <<"6"," ","m","o","n","t","h","s">>


----------------------------------------------------------------------------
(* The name of the candidate, checked under SpecExtract                    *)

\* the candidate lines: the first lines of the text that are not blank
NameCandidates ==
    LET all_lines == stripped_nonempty(re_split(cleaned, {"\n"}))
    IN  SubSeq(all_lines, 1, Min(NameLines, Len(all_lines)))

\* the candidate lines that hold the extracted email or phone
AnchorLines ==
    {i \in DOMAIN NameCandidates :
        \/ /\ extracted.personal_info.email # <<>>
           /\ Contains(NameCandidates[i], extracted.personal_info.email)
        \/ /\ extracted.personal_info.phone # <<>>
           /\ Contains(NameCandidates[i], extracted.personal_info.phone)}

\* no section keyword, 2 to 4 tokens, each alphabetic with an uppercase initial
Qualifies(i) ==
    /\ i \in DOMAIN NameCandidates
    /\ Lower(NameCandidates[i]) \notin forbidden
    /\ looks_like_name(NameCandidates[i])

\* the first line of the order that qualifies, "Not Found" when none does
FirstQualifying(order) ==
    IF \E k \in DOMAIN order : Qualifies(order[k])
    THEN NameCandidates[order[CHOOSE k \in DOMAIN order :
            Qualifies(order[k]) /\ \A j \in 1..(k - 1) : ~Qualifies(order[j])]]
    ELSE <<"N","o","t"," ","F","o","u","n","d">>

DocumentOrder == [i \in DOMAIN NameCandidates |-> i]

----------------------------------------------------------------------------
(* The explanation of the score, checked under SpecMatch                   *)

\* the sentence of scoring_explanation about one part
Listed(part) ==
    \E k \in DOMAIN report.scoring_explanation : report.scoring_explanation[k].part = part

Sentence(part) ==
    report.scoring_explanation[CHOOSE k \in DOMAIN report.scoring_explanation :
                                   report.scoring_explanation[k].part = part]

\* C18, as the specification states it: the explanation of the deterministic
\* matcher lists the contribution of the core skills, the projects, the tools,
\* the experience alignment and the soft skills, and the final percentage and
\* level; no component that contributed to the score is absent from it.
C18_EveryContributionListed ==
    pc = "done" =>
        /\ Listed("Core Technical Skills")
        /\ Sentence("Core Technical Skills").score = core_component
        /\ project_component # 0 =>
                /\ Listed("Project Experience")
                /\ Sentence("Project Experience").score = project_component
        /\ Listed("Tools & Ecosystem")
        /\ Sentence("Tools & Ecosystem").score = tools_component
        /\ Listed("Experience Alignment")
        /\ Sentence("Experience Alignment").score = experience_component
        /\ soft_component # FInt(0) =>
                /\ Listed("Soft Skills")
                /\ Sentence("Soft Skills").score = soft_component
        /\ Listed("Total Score")
        /\ Sentence("Total Score").percentage = report.match_percentage
        /\ Sentence("Total Score").level = report.match_level


----------------------------------------------------------------------------
(* The arguments of the passes, checked under SpecExtract                  *)

\* C19, as the specification states it: when normalize and validate return, the
\* profile they were given is as it was when they were called, with the same
\* experience, projects, skills and keys, and what they return is another
\* structure than the one they were given.
C19_StagesLeaveArgumentUnchanged ==
    pc \in {"normalized", "validated"} =>
        /\ extracted = previous.argument
        /\ ~previous.returns_argument


----------------------------------------------------------------------------
(* The pipeline run twice on one text, checked under SpecPipeline          *)

\* the pipeline ran a second time on the text
RanTwice == Parsed /\ previous # Nothing

\* C20: the pipeline run twice on the same resume text yields the same profile,
\* every list in the same order, skills.technical included, whatever the order in
\* which the set of skill tokens yields its members.
C20_SameTextSameProfile ==
    RanTwice => candidate_profile = previous.profile

\* the second run of a resume with several skills, an education entry, an
\* experience entry and a project
C20_Witness ==
    /\ RanTwice
    /\ Len(technical) >= 3
    /\ candidate_profile.education # <<>>
    /\ candidate_profile.experience # <<>>
    /\ candidate_profile.projects # <<>>
    /\ candidate_profile = previous.profile


----------------------------------------------------------------------------
(* Invocations in progress at once, checked under SpecConcurrent           *)

\* what invocation i returns when it runs alone
ReturnsAsAlone(i) ==
    IF frames[i].call = "analyze"
    THEN frames[i].result = analyze(frames[i].resume_text)
    ELSE /\ ~match_raises(frames[i].answer, frames[i].candidate_profile,
                          frames[i].job_requirements)
         /\ frames[i].result = match(frames[i].answer, frames[i].candidate_profile,
                                     frames[i].job_requirements)

----------------------------------------------------------------------------
(* The later rules of the experience inference, checked under SpecPipeline *)

\* rule 1 applies: no experience entry is retained, and a project is, or the text
\* holds a word of a student
FresherRule ==
    /\ candidate_profile.experience = <<>>
    /\ candidate_profile.projects # <<>> \/ is_fresher_text(Lower(cleaned))

\* a year range is matched somewhere in the text
RangeMatched == \E i \in DOMAIN cleaned : range_end(cleaned, i) > 0

\* the text holds a keyword of employment
HintPresent ==
    HasWord(Lower(cleaned), { <<"i","n","t","e","r","n">>, <<"i","n","t","e","r","n","s","h","i","p">>, <<"t","r","a","i","n","e","e">>, <<"d","e","v","e","l","o","p","e","r">>, <<"e","n","g","i","n","e","e","r">> })

\* C22, as the specification states it: the flat 6 months are credited exactly when
\* no year range matched anywhere in the text and the text holds one of the words
\* intern, internship, trainee, developer, engineer; when a range matched, even one
\* that ends before it starts, nothing is credited and a total of zero months
\* gives "Not Mentioned".
C22_HintOnlyWithoutRanges ==
    (Parsed /\ ~FresherRule) =>
        /\ (~RangeMatched /\ HintPresent)
                => candidate_profile.experience_years = years_text(HintMonths)
        /\ (~RangeMatched /\ ~HintPresent)
                => candidate_profile.experience_years = <<"N","o","t"," ","M","e","n","t","i","o","n","e","d">>
        /\ (RangeMatched /\ total_months_from(cleaned, 1) = 0)
                => candidate_profile.experience_years = <<"N","o","t"," ","M","e","n","t","i","o","n","e","d">>


\* texts and the year ranges written in them, first and last year of each
StatedRanges ==
    { [text |-> <<"2","0","1","9","-","2","0","2","2">>, ranges |-> << <<2019, 2022>> >>],
      [text |-> <<"2","0","1","9"," ","-"," ","2","0","2","2">>, ranges |-> << <<2019, 2022>> >>],
      [text |-> <<"2","0","2","0","-","p","r","e","s","e","n","t">>, ranges |-> << <<2020, PresentYear>> >>],
      [text |-> <<"2","0","1","5","-","2","0","1","5">>, ranges |-> << <<2015, 2015>> >>],
      [text |-> <<"2","0","1","9","-","2","0","2","2",".","\n","2","0","1","0"," ","-"," ","2","0","1","2">>, ranges |-> << <<2019, 2022>>, <<2010, 2012>> >>],
      [text |-> <<"E","n","g","i","n","e","e","r"," ","2","0","1","9","-","P","R","E","S","E","N","T",","," ","2","0","1","0"," ","-"," ","2","0","1","2"," ","a","n","d"," ","2","0","1","5","-","2","0","1","4",".">>,
       ranges |-> << <<2019, PresentYear>>, <<2010, 2012>>, <<2015, 2014>> >>] }

\* the sum of (end - start + 1) * 12 over the ranges with end >= start
RECURSIVE StatedMonths(_)
StatedMonths(ranges) ==
    IF ranges = <<>> THEN 0
    ELSE (IF Head(ranges)[2] >= Head(ranges)[1]
          THEN (Head(ranges)[2] - Head(ranges)[1] + 1) * 12 ELSE 0)
         + StatedMonths(Tail(ranges))

\* C23: when rule 1 does not apply, the months are the sum over the matched
\* ranges with end >= start of (end - start + 1) * 12, "present" in any letter case
\* standing for one fixed year and a range with end < start adding nothing; a
\* positive total is written as the years with one decimal, then " years".
C23_MonthsSummedOverRanges ==
    (Parsed /\ ~FresherRule) =>
        \A e \in StatedRanges :
            resume_text = e.text =>
                candidate_profile.experience_years =
                    NatToStr(StatedMonths(e.ranges) \div 12) \o <<".","0"," ","y","e","a","r","s">>

\* three ranges, one up to "PRESENT" and one that ends before it starts: 9 years
C23_Witness ==
    /\ Parsed /\ ~FresherRule
    /\ resume_text = <<"E","n","g","i","n","e","e","r"," ","2","0","1","9","-","P","R","E","S","E","N","T",","," ","2","0","1","0"," ","-"," ","2","0","1","2"," ","a","n","d"," ","2","0","1","5","-","2","0","1","4",".">>
    /\ candidate_profile.experience_years = <<"9",".","0"," ","y","e","a","r","s">>


\* the confidence values of the entries of a list, None for an entry without one
Confidences(entries) ==
    { IF "confidence" \in DOMAIN entries[i] THEN entries[i].confidence ELSE None :
        i \in DOMAIN entries }

\* C24: after validate every confidence is explicit, contextual or uncertain; any
\* other value on an entry of education, experience, projects or certifications
\* has been replaced by explicit.
C24_EveryConfidenceIsATag ==
    pc = "validated" =>
        \A k \in {"education", "experience", "projects", "certifications"} :
            /\ Confidences(candidate_profile[k]) \subseteq
                   { <<"e","x","p","l","i","c","i","t">>, <<"c","o","n","t","e","x","t","u","a","l">>, <<"u","n","c","e","r","t","a","i","n">> }
            /\ \A i \in DOMAIN candidate_profile[k] :
                   candidate_profile[k][i].confidence =
                       IF Confidences(<< previous.argument[k][i] >>) \subseteq
                              { <<"e","x","p","l","i","c","i","t">>, <<"c","o","n","t","e","x","t","u","a","l">>, <<"u","n","c","e","r","t","a","i","n">> }
                       THEN previous.argument[k][i].confidence
                       ELSE <<"e","x","p","l","i","c","i","t">>


\* the raw lines that are no page counter, in order
KeptLines ==
    SelectSeq(splitlines(resume_text), LAMBDA l : l \notin { <<"3"," ","/"," ","7">>, <<"P","a","g","e"," ","2"," ","o","f"," ","7">> })

\* the lines of the cleaned text
OutputLines == IF cleaned = <<>> THEN <<>> ELSE splitlines(cleaned)

\* an output line draws the next line in
DrawsNext(line) ==
    \/ line[Len(line)] \in {"-", "U+2013"}
    \/ Len(line) < 48 /\ line[Len(line)] # "."

\* the kept lines from..to written as one output line
Joined(lines, from, to) == Join(<<" ">>, SubSeq(lines, from, to))

\* the kept line that begins the output line holding line i, for the set of
\* lines that begin an output line
BeginOf(begins, i) == CHOOSE b \in begins : b <= i /\ \A c \in begins : c <= i => c <= b

\* begins is the set of kept lines that begin an output line of the cleaned text
OutputBeginsAt(begins) ==
    /\ Len(OutputLines) = Cardinality(begins)
    /\ \A b \in begins :
          LET later == { c \in begins : c > b }
              to    == IF later = {} THEN Len(KeptLines)
                       ELSE (CHOOSE c \in later : \A d \in later : c <= d) - 1
          IN  OutputLines[Cardinality({ c \in begins : c <= b })] = Joined(KeptLines, b, to)

\* C25: scanning the kept lines top to bottom, a line is appended with one space to
\* the previous output line exactly when that output line ends with a hyphen or an
\* en-dash, or is shorter than 48 characters and does not end with a period;
\* otherwise it begins an output line.  Page counters are dropped before the
\* merging, and the empty text gives the empty text.
C25_LineJoinedIffPreviousDrawsNext ==
    pc # "raw" =>
        /\ resume_text = <<>> => cleaned = <<>>
        /\ KeptLines = <<>> => cleaned = <<>>
        /\ KeptLines # <<>> =>
              \E begins \in SUBSET (1..Len(KeptLines)) :
                  /\ 1 \in begins
                  /\ OutputBeginsAt(begins)
                  /\ \A i \in 2..Len(KeptLines) :
                        i \notin begins <=>
                            DrawsNext(Joined(KeptLines, BeginOf(begins, i - 1), i - 1))

\* a long line without a period ends its output line, and a long line that ends
\* with a hyphen takes the entry after it
C25_Witness ==
    /\ pc = "cleaned"
    /\ resume_text = <<"B","u","i","l","t"," ","t","h","e"," ","b","i","l","l","i","n","g"," ","s","e","r","v","i","c","e"," ","a","n","d"," ","i","t","s"," ","r","e","p","o","r","t","s"," ","f","o","r"," ","t","h","e"," ","c","l","i","e","n","t","\n","B","u","i","l","t"," ","t","h","e"," ","b","i","l","l","i","n","g"," ","s","e","r","v","i","c","e"," ","a","n","d"," ","t","h","e"," ","r","e","p","o","r","t","s"," ","f","o","r"," ","c","l","i","-","\n","S","o","f","t","w","a","r","e"," ","I","n","t","e","r","n",","," ","X","Y","Z"," ","C","o","r","p",","," ","6"," ","m","o","n","t","h","s",".">>
    /\ cleaned = <<"B","u","i","l","t"," ","t","h","e"," ","b","i","l","l","i","n","g"," ","s","e","r","v","i","c","e"," ","a","n","d"," ","i","t","s"," ","r","e","p","o","r","t","s"," ","f","o","r"," ","t","h","e"," ","c","l","i","e","n","t","\n","B","u","i","l","t"," ","t","h","e"," ","b","i","l","l","i","n","g"," ","s","e","r","v","i","c","e"," ","a","n","d"," ","t","h","e"," ","r","e","p","o","r","t","s"," ","f","o","r"," ","c","l","i","-"," ","S","o","f","t","w","a","r","e"," ","I","n","t","e","r","n",","," ","X","Y","Z"," ","C","o","r","p",","," ","6"," ","m","o","n","t","h","s",".">>


\* the lines handed to the section detector
GivenLines == splitlines(cleaned)

\* the sections one of whose aliases the lower-cased line starts with
SectionsNamedBy(line) ==
    { headers[h].key : h \in { g \in DOMAIN headers :
        \E a \in DOMAIN headers[g].aliases :
            /\ Len(headers[g].aliases[a]) <= Len(line)
            /\ SubSeq(Lower(line), 1, Len(headers[g].aliases[a])) = headers[g].aliases[a] } }

IsHeaderLine(i) == SectionsNamedBy(GivenLines[i]) # {}

\* the header line the cursor was last set by when line i is read, 0 while unset
CursorSetBy(i) ==
    IF \E j \in 1..(i - 1) : IsHeaderLine(j)
    THEN CHOOSE j \in 1..(i - 1) :
            IsHeaderLine(j) /\ \A k \in (j + 1)..(i - 1) : ~IsHeaderLine(k)
    ELSE 0

\* the lines that belong under section key: not headers, read while the cursor
\* is on key
LinesUnder(key) ==
    SelectSeq([i \in DOMAIN GivenLines |-> i],
              LAMBDA i : /\ ~IsHeaderLine(i)
                         /\ CursorSetBy(i) # 0
                         /\ key \in SectionsNamedBy(GivenLines[CursorSetBy(i)]))

\* C26: a line whose lower-cased text starts with a section alias moves the cursor
\* to that section and enters no body; every other line is appended as it is, in
\* input order, to the body of the section under the cursor, or dropped while the
\* cursor is unset.  Every line after the first header that is no header is in
\* exactly one body, and no line before the first header is in any.
C26_LinesFiledUnderCursor ==
    pc = "extracted" =>
        /\ \A key \in DOMAIN detected :
              detected[key] = [n \in DOMAIN LinesUnder(key) |-> GivenLines[LinesUnder(key)[n]]]
        /\ \A i \in DOMAIN GivenLines :
              Cardinality({ key \in DOMAIN detected : i \in Range(LinesUnder(key)) })
                  = IF ~IsHeaderLine(i) /\ \E j \in 1..(i - 1) : IsHeaderLine(j) THEN 1 ELSE 0

\* an entry before the first header is dropped, and the two entries after the
\* header are filed under it in their order
C26_Witness ==
    /\ pc = "extracted"
    /\ cleaned = <<"S","o","f","t","w","a","r","e"," ","I","n","t","e","r","n",","," ","X","Y","Z"," ","C","o","r","p",","," ","6"," ","m","o","n","t","h","s","\n","E","D","U","C","A","T","I","O","N","\n","T","e","s","t","e","r"," ","-"," ","B","e","t","a"," ","L","t","d","\n","B",".","T","e","c","h",","," ","A","B","C"," ","U","n","i","v","e","r","s","i","t","y",","," ","2","0","2","2">>
    /\ detected.education = << <<"T","e","s","t","e","r"," ","-"," ","B","e","t","a"," ","L","t","d">>, <<"B",".","T","e","c","h",","," ","A","B","C"," ","U","n","i","v","e","r","s","i","t","y",","," ","2","0","2","2">> >>
    /\ detected.experience = <<>>


\* the canonical form or forms of a token: looked up lower-cased in the synonym
\* table, then in the stack table, else the token itself
CanonicalForms(token) ==
    IF \E e \in norm_map : e[1] = Lower(token)
    THEN { << e[2] >> : e \in { f \in norm_map : f[1] = Lower(token) } }
    ELSE IF \E e \in stack_map : e[1] = Lower(token)
    THEN { e[2] : e \in { f \in stack_map : f[1] = Lower(token) } }
    ELSE { << token >> }

\* the technical skills the normalizer is given, each replaced, in input order
Replaced ==
    LET given == extract_fields(detected, cleaned).skills.technical
    IN  Concat([i \in DOMAIN given |-> CHOOSE forms \in CanonicalForms(given[i]) : TRUE])

\* where a string is first seen among the replaced tokens, whatever its casing
FirstSeen(replaced, x) ==
    CHOOSE i \in DOMAIN replaced :
        /\ Lower(replaced[i]) = Lower(x)
        /\ \A j \in 1..(i - 1) : Lower(replaced[j]) # Lower(x)

\* out keeps the first occurrence of every case-insensitively distinct string of
\* replaced, in order
KeepsFirstOccurrences(replaced, out) ==
    /\ \A k, l \in DOMAIN out : k # l => Lower(out[k]) # Lower(out[l])
    /\ \A i \in DOMAIN replaced : \E k \in DOMAIN out : Lower(out[k]) = Lower(replaced[i])
    /\ \A k \in DOMAIN out :
          /\ \E i \in DOMAIN replaced : Lower(replaced[i]) = Lower(out[k])
          /\ out[k] = replaced[FirstSeen(replaced, out[k])]
    /\ \A k, l \in DOMAIN out :
          k < l => FirstSeen(replaced, out[k]) < FirstSeen(replaced, out[l])

\* C27: the technical skills that leave the normalizer are the input tokens, in
\* input order, each replaced by its canonical form from the synonym table or by
\* the forms from the stack table (looked up lower-cased) or passed through, and
\* then only the first occurrence of each case-insensitively distinct string,
\* in its first-seen casing; no two entries are equal case-insensitively.
C27_CanonicalThenFirstOccurrences ==
    Parsed => KeepsFirstOccurrences(Replaced, extracted.skills.technical)

\* MERN, js and react: the stack gives four entries, js its canonical form, and
\* react is dropped as a second spelling of React
C27_Witness ==
    /\ Parsed
    /\ resume_text = <<"S","k","i","l","l","s",".","\n","M","E","R","N",","," ","r","e","a","c","t",","," ","j","s">>
    /\ Replaced = << <<"M","o","n","g","o","D","B">>, <<"E","x","p","r","e","s","s">>, <<"R","e","a","c","t">>, <<"N","o","d","e",".","j","s">>, <<"J","a","v","a","S","c","r","i","p","t">>, <<"r","e","a","c","t">> >>
    /\ extracted.skills.technical = << <<"M","o","n","g","o","D","B">>, <<"E","x","p","r","e","s","s">>, <<"R","e","a","c","t">>, <<"N","o","d","e",".","j","s">>, <<"J","a","v","a","S","c","r","i","p","t">> >>


\* C28: a raw line that begins with a section alias is a line of its own in the
\* cleaned text, neither joined to the line before it nor taking the entry after
\* it, and the entry that follows it in the raw text is filed under its section.
C28_HeadersKeepTheirLine ==
    pc = "extracted" =>
        \A i \in DOMAIN KeptLines :
            SectionsNamedBy(KeptLines[i]) # {} =>
                /\ KeptLines[i] \in Range(OutputLines)
                /\ (i < Len(KeptLines) /\ SectionsNamedBy(KeptLines[i + 1]) = {}) =>
                       \E key \in SectionsNamedBy(KeptLines[i]) :
                           \E n \in DOMAIN detected[key] :
                               KeptLines[i + 1] = detected[key][n]


\* the three lists of the report hold the required skills, each exactly once and
\* in their order, when turn i of the loop goes to the list named by where[i]
AccountsFor(where) ==
    LET turns(list) == SelectSeq([i \in DOMAIN required_skills |-> i],
                                 LAMBDA i : where[i] = list)
    IN  /\ report.matched_skills =
              [n \in DOMAIN turns("matched") |-> required_skills[turns("matched")[n]]]
        /\ report.missing_skills =
              [n \in DOMAIN turns("missing") |-> required_skills[turns("missing")[n]]]
        /\ Len(report.partial_matches) = Len(turns("partial"))
        /\ \A n \in DOMAIN turns("partial") :
              StartsWith(report.partial_matches[n],
                         required_skills[turns("partial")[n]] \o <<" ", "(">>)

\* C29: in every report of the deterministic matcher each required skill, counted
\* as often as it is listed, is in exactly one of matched_skills, partial_matches
\* and missing_skills; the three lengths add up to len(required_skills), and
\* each list keeps the order of required_skills.
C29_RequiredSkillsPartitioned ==
    (pc = "done" /\ report.fallback) =>
        /\ Len(report.matched_skills) + Len(report.partial_matches)
               + Len(report.missing_skills) = Len(required_skills)
        /\ \E where \in [DOMAIN required_skills -> {"matched", "partial", "missing"}] :
               AccountsFor(where)

\* a report whose three lists are all non-empty
C29_Witness ==
    /\ pc = "done" /\ report.fallback
    /\ report.matched_skills # <<>>
    /\ report.partial_matches # <<>>
    /\ report.missing_skills # <<>>
    /\ Len(report.matched_skills) + Len(report.partial_matches)
           + Len(report.missing_skills) = Len(required_skills)


\* the language model failed: the call raised, or it returned an error object or
\* a value that is no JSON object
LlmFailed ==
    \/ llm_result.kind \in {"raises", "other"}
    \/ llm_result.kind = "dict" /\ DictGet(llm_result.value, "error", FALSE)

\* C30: whenever the language model returns an error object, whatever its message,
\* returns a value that is no JSON object, or raises, match returns the report of
\* the deterministic matcher for the same profile and job, marked fallback = true,
\* instead of raising.
C30_LlmFailureGivesFallbackReport ==
    (pc \in {"done", "raised"} /\ LlmFailed) =>
        /\ pc = "done"
        /\ report.fallback
        /\ report = generate_fallback_match(candidate_profile, job_requirements)

====
